---- MODULE Spec2Model ----
(***************************************************************************)
(* Sessions of gmp-droid (gmp-droid.cpp): the decode session (class        *)
(* DroidVideoDecoder, Spec), the encode session (class DroidVideoEncoder,  *)
(* EncSpec), either of them as GMPGetAPI hands them out (GmpSpec), and the *)
(* NAL reframing the two do on a frame buffer (ReframeSpec).               *)
(*                                                                         *)
(* Three threads act on one decoder object:                                *)
(*   - the GMP main thread: the host's calls (InitDecode, Decode, Drain,   *)
(*     Reset, DecodingComplete) and the tasks posted with runonmainthread  *)
(*     and syncrunonmainthread, in FIFO order;                             *)
(*   - the submit thread (m_submit_thread): SubmitBufferThread tasks;      *)
(*   - the droidmedia codec thread: DataAvailable, SignalEOS, DroidError,  *)
(*     SizeChanged.                                                        *)
(* Each action is one uninterrupted stretch of one function; a function    *)
(* that can block (on a mutex, on Join, on droid_media_codec_stop, on      *)
(* syncrunonmainthread) is cut at the blocking point.                      *)
(***************************************************************************)
EXTENDS Integers, Sequences, FiniteSets, TLC

\* ------------------------------------------------------------------ bounds
MaxFrames   == 2      \* Decode calls made by the host
MaxResets   == 2      \* Reset calls made by the host
MaxDrains   == 1      \* Drain calls made by the host
MaxFaults   == 1      \* failures injected by the host and the hardware
MaxCreateFailures == 1 \* failures of droid_media_codec_create_decoder
MaxEvents   == 3      \* Decode, Drain and Reset calls and failures together
MaxCodecs   == 2      \* codec handles droidmedia hands out
MaxTs       == 2      \* timestamps 1..MaxTs
MaxFormats  == 3      \* colour formats the codec lists
MaxNals     == 2      \* NAL units in a frame
MaxNalLen   == 4      \* bytes in a NAL unit

TS   == 1 .. MaxTs
Durs == {5, 7}        \* frame durations (never 0, the "not found" value)

\* ProcessFrame_m: int64_t ts = data->ts / 1000;  the codec reports nsec
NsPerUs == 1000

\* colour formats: the two InitEncode accepts, and any other
Planar == "OMX_COLOR_FormatYUV420Planar"
SemiPlanar == "OMX_COLOR_FormatYUV420SemiPlanar"
OtherFormat == "other"
NoFormat == "-1"         \* m_metadata.color_format = -1
Zeroed == "0"            \* m_metadata after memset

VARIABLES
  \* ---- fields of DroidVideoDecoder
  m_callback,        \* TRUE: non-null GMPVideoDecoderCallback*
  m_host,            \* TRUE: non-null GMPVideoHost*
  m_codec,           \* 0: nullptr, else the codec handle
  m_submit_thread,   \* 0: nullptr, else the k-th thread made by createthread
  m_conv,            \* TRUE: a colour converter exists
  m_dropConverter,
  m_draining,
  m_resetting,
  m_processing,
  m_dur,             \* std::map timestamp -> duration
  \* ---- fields of DroidVideoEncoder (it has m_host, m_callback, m_codec
  \*      and m_processing as well)
  m_stopping,
  m_color_format,    \* m_metadata.color_format
  m_codec_lock,      \* [owner, n]  (re-entrant)
  m_drain_lock,      \* [owner, n]
  \* ---- threads
  pcM,               \* where the main thread is
  pcW,               \* where the submit thread is
  pcH,               \* where the codec thread is
  mainQ,             \* tasks posted to the main thread
  workerQ,           \* SubmitBufferThread tasks posted to the submit thread
  wFrame,            \* cdata.ts of the task the submit thread is running
  hFrame,            \* decoded->ts of the frame the codec thread is delivering
  \* ---- environment
  api,               \* apiName given to GMPGetAPI: which class the session is
  cfg,               \* "none" before InitDecode, else "ok" / "unsupported"
  codecs,            \* droidmedia's handles: state, drain request, input queue
  nThreads,          \* submit threads created so far
  crashed,           \* the process died on a null pointer call
  \* ---- one H.264 frame going through the two NAL reframings
  lenSize,           \* bytes in a length prefix: 1, 2, 4 for
                     \* GMP_BufferLength8, 16, 32
  nals,              \* the NAL units (payloads) the frame was built from
  buf,               \* the frame buffer
  stage,             \* "input", "reframed" (Decode), "converted"
                     \* (ConvertNalUnits), "overflow" (it wrote past the end)
  \* ---- one colour converter being chosen and set up
  md,                \* what droid_media_codec_get_output_info reports
  converter,         \* the DroidColourConvert object and its fields
  \* ---- observation of the run (no action reads it, bounds apart)
  obs

vars == <<m_callback, m_host, m_codec, m_submit_thread, m_conv,
          m_dropConverter, m_draining, m_resetting, m_processing, m_dur,
          m_codec_lock, m_drain_lock, pcM, pcW, pcH, mainQ, workerQ, wFrame,
          hFrame, cfg, codecs, nThreads, crashed, obs, m_stopping,
          m_color_format, api, nals, buf, stage, md, converter,
          lenSize>>

\* ----------------------------------------------------------------- helpers
\* std::map<int64_t, uint64_t>
EmptyMap == [t \in {} |-> 0]
MapPut(m, k, v) == [t \in (DOMAIN m) \cup {k} |-> IF t = k THEN v ELSE m[t]]
MapErase(m, k) == [t \in (DOMAIN m) \ {k} |-> m[t]]
MapSize(m) == Cardinality(DOMAIN m)

\* GMPMutex (re-entrant): Acquire blocks unless free or owned by the caller
NoThread == <<"none", 0>>
MainThread == <<"main", 0>>
SubmitThread == <<"submit", m_submit_thread>>
Unlocked == [owner |-> NoThread, n |-> 0]
CanAcquire(l, t) == l.owner \in {NoThread, t}
Acquire(l, t) == [owner |-> t, n |-> l.n + 1]
Release(l) == IF l.n <= 1 THEN Unlocked ELSE [l EXCEPT !.n = l.n - 1]

\* a task on the main thread: t the function, a its bound argument
\* (for a task bound to m_callback: 1 if the pointer was non-null when bound)
Task(t, a) == [t |-> t, a |-> a]
Ptr(b) == IF b THEN 1 ELSE 0

\* droidmedia handle: st in none / created / started / eos / destroyed
NoCodec == [st |-> "none", drainReq |-> FALSE, q |-> [t \in TS |-> 0]]
RECURSIVE BagSize(_, _)
BagSize(q, S) == IF S = {} THEN 0
                 ELSE LET t == CHOOSE x \in S : TRUE
                      IN q[t] + BagSize(q, S \ {t})
NextHandle == Cardinality({h \in DOMAIN codecs : codecs[h].st # "none"}) + 1

\* droid_media_codec_drain on handle h
CodecDrain(h) ==
  IF h # 0 /\ codecs[h].st \in {"created", "started"}
  THEN [codecs EXCEPT ![h].drainReq = TRUE]
  ELSE codecs

\* h is not null and droid_media_codec_destroy has been called on it
Destroyed(h) == h # 0 /\ codecs[h].st = "destroyed"

\* a host callback runs (on the main thread)
Delivered(o, names) ==
  [o EXCEPT !.anyCb = TRUE,
            !.nCb = @ + 1,
            !.lateCb = IF o.shutdown THEN @ \cup names ELSE @]

\* the environment injects n failures
Faulted(o, n) == [o EXCEPT !.nFaults = @ + n]
Bit(b) == IF b THEN 1 ELSE 0

\* DroidVideoDecoder::Error: posts m_callback->Error to the main thread if
\* a callback is set; q is the main-thread queue the task is appended to
Error(q) == IF m_callback THEN Append(q, Task("cbError", 1)) ELSE q
\* the same, called in InitDecode / InitEncode right after m_callback was set
Error_bound(q) == Append(q, Task("cbError", 1))

\* what GMPGetAPI ("decode-video") and ("encode-video") construct
NewSession ==
  /\ m_callback = FALSE /\ m_host = TRUE /\ m_codec = 0
  /\ m_submit_thread = 0 /\ m_conv = FALSE /\ m_dropConverter = FALSE
  /\ m_draining = FALSE /\ m_resetting = FALSE /\ m_processing = FALSE
  /\ m_dur = EmptyMap
  /\ m_codec_lock = Unlocked /\ m_drain_lock = Unlocked
  /\ pcM = "idle" /\ pcW = "idle" /\ pcH = "idle"
  /\ mainQ = <<>> /\ workerQ = <<>> /\ wFrame = 0 /\ hFrame = 0
  /\ cfg = "none" /\ codecs = [h \in 1 .. MaxCodecs |-> NoCodec]
  /\ nThreads = 0 /\ crashed = FALSE
  /\ obs = [shutdown |-> FALSE,     \* DecodingComplete has been called
            anyCb |-> FALSE,        \* some host callback has been delivered
            nCb |-> 0,              \* steps that invoked host callbacks
            lateCb |-> {},          \* callbacks delivered after DecodingComplete
            nDecodeCalls |-> 0, nResetCalls |-> 0, nDrainCalls |-> 0,
            nEffResets |-> 0,       \* Reset calls that found m_resetting false
            nFaults |-> 0,
            nCreateFail |-> 0,
            nResetComplete |-> 0, nDrainComplete |-> 0,
            postedSinceReset |-> FALSE,   \* Decode has posted a frame to the
                                          \* submit thread since Reset_m ended
            nDataAvail |-> 0,       \* DataAvailable callbacks
            nDecoded |-> 0,         \* Decoded callbacks
            nDiscarded |-> 0,       \* frames dropped by ProcessFrame
            nFailed |-> 0,          \* frames ProcessFrame_m gave up on
            convFailAt |-> -1,      \* nDecoded when GetConverter first found
                                    \* no converter; -1: it never failed
            subDur |-> [t \in TS |-> 0],  \* duration last cached per timestamp
            dupTs |-> FALSE,        \* a timestamp was given to Decode twice
            lastDecoded |-> <<0, 0>>,     \* <<ts, dur>> last given to Decoded
            pfmReleased |-> FALSE,  \* ProcessFrame_m ran after the release
                                    \* of m_callback / m_host
            resetInDelivery |-> FALSE,    \* Reset_m ran while m_processing
            resetDeferred |-> FALSE,      \* a Reset found m_processing set
            dcVia |-> {},           \* the ways DrainComplete came about
            pfmOrders |-> {},       \* the callbacks of one ProcessFrame_m, in
                                    \* the order it made them
            nEncodeCalls |-> 0,
            nEncoded |-> 0,         \* Encoded callbacks
            stoppingAccepted |-> FALSE,   \* the encoder's DataAvailable went
                                          \* on with m_stopping set
            formats |-> <<>>,       \* the colour formats the codec listed
            nMalloc |-> 0,          \* frame copies Decode allocated
            nUnref |-> 0,           \* cb.unref calls of the session
            nQueued |-> 0,          \* copies handed to droid_media_codec_queue
            droidConvert |-> FALSE, \* droid_media_convert_create gave a
                                    \* converter to GetConverter
            preReset |-> {},        \* the frames Decode took before the
                                    \* last Reset that started a reset
            badHandle |-> FALSE,    \* a droidmedia call got a null or a
                                    \* destroyed handle
            outside |-> FALSE,      \* reframing read or wrote a byte at or
                                    \* past the end of the frame buffer
            ecDeferred |-> FALSE,   \* the host's EncodingComplete returned
                                    \* early: a frame was being delivered
            nStops |-> 0,           \* droid_media_codec_stop/destroy calls
                                    \* the encoder made
            initErr |-> "none"]     \* the error InitEncode gave to Error

\* the session models leave the content of the frame buffers out
NoFrame ==
  /\ nals = <<>> /\ buf = <<>> /\ stage = "session" /\ lenSize = 0
  /\ md = <<>> /\ converter = <<>>

Init ==
  /\ NewSession
  /\ api = "decode-video"
  /\ m_stopping = FALSE /\ m_color_format = NoFormat
  /\ NoFrame

HostMayCall == pcM = "idle" /\ ~crashed /\ cfg # "none" /\ ~obs.shutdown

\* the bounds on what the host and the hardware do
Events == obs.nDecodeCalls + obs.nResetCalls + obs.nDrainCalls + obs.nFaults
          + obs.nEncodeCalls
MayCall == Events < MaxEvents
MayFail == obs.nFaults < MaxFaults /\ Events < MaxEvents

\* ------------------------------------------------ host calls (main thread)
\* InitDecode with the test of droid_media_codec_is_supported inverted
InitDecode_inverted(supported) ==
  /\ pcM = "idle" /\ ~crashed /\ cfg = "none"
  /\ ~supported => MayFail
  /\ m_callback' = TRUE
  /\ mainQ' = IF ~supported THEN mainQ ELSE Append(mainQ, Task("cbError", 1))
  /\ cfg' = IF supported THEN "ok" ELSE "unsupported"
  /\ obs' = Faulted(obs, Bit(~supported))
  /\ UNCHANGED <<m_host, m_codec, m_submit_thread, m_conv, m_dropConverter,
                 m_draining, m_resetting, m_processing, m_dur, m_codec_lock,
                 m_drain_lock, pcM, pcW, pcH, workerQ, wFrame, hFrame,
                 codecs, nThreads, crashed, m_stopping, m_color_format, api,
                 nals, buf, stage, md, converter, lenSize>>

\* InitDecode for a known codec type; supported is the answer of
\* droid_media_codec_is_supported.  The "not supported" branch reports the
\* error and falls through to the parameter setup.
InitDecode(supported) ==
  /\ pcM = "idle" /\ ~crashed /\ cfg = "none"
  /\ ~supported => MayFail
  /\ m_callback' = TRUE
  /\ mainQ' = IF supported THEN mainQ ELSE Append(mainQ, Task("cbError", 1))
  /\ cfg' = IF supported THEN "ok" ELSE "unsupported"
  /\ obs' = Faulted(obs, Bit(~supported))
  /\ UNCHANGED <<m_host, m_codec, m_submit_thread, m_conv, m_dropConverter,
                 m_draining, m_resetting, m_processing, m_dur, m_codec_lock,
                 m_drain_lock, pcM, pcW, pcH, workerQ, wFrame, hFrame,
                 codecs, nThreads, crashed, m_stopping, m_color_format, api,
                 nals, buf, stage, md, converter, lenSize>>

\* Decode: if (!m_submit_thread), with the test left out
NoSubmitThread_always == TRUE
\* Decode: if (!m_submit_thread)
NoSubmitThread == m_submit_thread = 0

\* Decode: bufOk is FALSE for an H.264 frame whose BufferType is
\* GMP_BufferLength24 / GMP_BufferInvalid; thrOk is the result of createthread
Decode(ts, dur, bufOk, thrOk) ==
  /\ HostMayCall /\ MayCall /\ obs.nDecodeCalls < MaxFrames
  /\ ~bufOk => thrOk
  /\ m_submit_thread # 0 => thrOk
  /\ ~(bufOk /\ thrOk) => (obs.nFaults < MaxFaults /\ Events + 1 < MaxEvents)
  /\ IF ~bufOk
     THEN /\ mainQ' = Error(mainQ)
          /\ obs' = [Faulted(obs, 1) EXCEPT !.nDecodeCalls = @ + 1]
          /\ UNCHANGED <<m_dur, m_submit_thread, nThreads, workerQ>>
     ELSE /\ m_dur' = MapPut(m_dur, ts, dur)
          /\ obs' = [Faulted(obs, Bit(~thrOk)) EXCEPT
                       !.nDecodeCalls = @ + 1,
                       !.nMalloc = @ + 1,
                       !.preReset = @ \ {ts},
                       !.postedSinceReset = @ \/ thrOk,
                       !.subDur[ts] = dur,
                       !.dupTs = @ \/ obs.subDur[ts] # 0]
          /\ IF ~thrOk
             THEN /\ mainQ' = Error(mainQ)
                  /\ UNCHANGED <<m_submit_thread, nThreads, workerQ>>
             ELSE /\ m_submit_thread' = IF NoSubmitThread
                                        THEN nThreads + 1 ELSE m_submit_thread
                  /\ nThreads' = IF NoSubmitThread
                                 THEN nThreads + 1 ELSE nThreads
                  /\ workerQ' = Append(workerQ, ts)
                  /\ UNCHANGED mainQ
  /\ UNCHANGED <<m_callback, m_host, m_codec, m_conv, m_dropConverter,
                 m_draining, m_resetting, m_processing, m_codec_lock,
                 m_drain_lock, pcM, pcW, pcH, wFrame, hFrame, cfg, codecs,
                 crashed, m_stopping, m_color_format, api, nals, buf, stage,
                 md, converter, lenSize>>

\* Drain, up to m_drain_lock->Acquire ()
Drain ==
  /\ HostMayCall /\ MayCall /\ obs.nDrainCalls < MaxDrains
  /\ obs' = [obs EXCEPT !.nDrainCalls = @ + 1,
                        !.badHandle = @ \/ Destroyed(m_codec)]
  /\ codecs' = CodecDrain(m_codec)
  /\ crashed' \in IF Destroyed(m_codec) THEN BOOLEAN ELSE {crashed}
  /\ pcM' = "drain_lock"
  /\ UNCHANGED <<m_callback, m_host, m_codec, m_submit_thread, m_conv,
                 m_dropConverter, m_draining, m_resetting, m_processing,
                 m_dur, m_codec_lock, m_drain_lock, pcW, pcH, mainQ, workerQ,
                 wFrame, hFrame, cfg, nThreads, m_stopping, m_color_format,
                 api, nals, buf, stage, md, converter, lenSize>>

\* Drain, under the drain lock
Drain_locked ==
  /\ pcM = "drain_lock" /\ ~crashed
  /\ CanAcquire(m_drain_lock, MainThread)
  /\ pcM' = "idle"
  /\ IF m_codec = 0 \/ MapSize(m_dur) = 0
     THEN /\ obs' = [Delivered(obs, {"DrainComplete"}) EXCEPT
                       !.nDrainComplete = @ + 1,
                       !.dcVia = @ \cup {"immediate"}]
          /\ m_draining' = FALSE
     ELSE /\ m_draining' = TRUE
          /\ UNCHANGED obs
  /\ UNCHANGED <<m_callback, m_host, m_codec, m_submit_thread, m_conv,
                 m_dropConverter, m_resetting, m_processing, m_dur,
                 m_codec_lock, m_drain_lock, pcW, pcH, mainQ, workerQ,
                 wFrame, hFrame, cfg, codecs, nThreads, crashed, m_stopping,
                 m_color_format, api, nals, buf, stage, md, converter,
                 lenSize>>

\* Reset: if (m_resetting) return;
ResetInProgress_never == FALSE
ResetInProgress == m_resetting

\* Reset: if (m_processing) return;   (Reset_m is left to ProcessFrame)
DeliveryInProgress_never == FALSE
DeliveryInProgress == m_processing

\* Reset (whole function, under the stop lock)
Reset ==
  /\ HostMayCall /\ MayCall /\ obs.nResetCalls < MaxResets
  /\ obs' = [obs EXCEPT !.nResetCalls = @ + 1,
                        !.nEffResets = @ + Bit(~m_resetting),
                        !.preReset = IF m_resetting THEN @
                                     ELSE {t \in TS : obs.subDur[t] # 0},
                        !.resetDeferred = @ \/ (~m_resetting /\ m_processing)]
  /\ IF ResetInProgress
     THEN UNCHANGED <<m_resetting, mainQ>>
     ELSE /\ m_resetting' = TRUE
          /\ mainQ' = IF DeliveryInProgress THEN mainQ
                      ELSE Append(mainQ, Task("Reset_m", 0))
  /\ UNCHANGED <<m_callback, m_host, m_codec, m_submit_thread, m_conv,
                 m_dropConverter, m_draining, m_processing, m_dur,
                 m_codec_lock, m_drain_lock, pcM, pcW, pcH, workerQ, wFrame,
                 hFrame, cfg, codecs, nThreads, crashed, m_stopping,
                 m_color_format, api, nals, buf, stage, md, converter,
                 lenSize>>

\* DecodingComplete without the release of m_callback and m_host
DecodingComplete_keepsCallback ==
  /\ HostMayCall
  /\ m_resetting' = TRUE
  /\ mainQ' = Append(mainQ, Task("Reset_m", 0))
  /\ obs' = [obs EXCEPT !.shutdown = TRUE]
  /\ UNCHANGED <<m_callback, m_host, m_codec, m_submit_thread, m_conv,
                 m_dropConverter, m_draining, m_processing, m_dur,
                 m_codec_lock, m_drain_lock, pcM, pcW, pcH, workerQ, wFrame,
                 hFrame, cfg, codecs, nThreads, crashed, m_stopping,
                 m_color_format, api, nals, buf, stage, md, converter,
                 lenSize>>

\* DecodingComplete
DecodingComplete ==
  /\ HostMayCall
  /\ m_callback' = FALSE
  /\ m_host' = FALSE
  /\ m_resetting' = TRUE
  /\ mainQ' = Append(mainQ, Task("Reset_m", 0))
  /\ obs' = [obs EXCEPT !.shutdown = TRUE]
  /\ UNCHANGED <<m_codec, m_submit_thread, m_conv, m_dropConverter,
                 m_draining, m_processing, m_dur, m_codec_lock, m_drain_lock,
                 pcM, pcW, pcH, workerQ, wFrame, hFrame, cfg, codecs,
                 nThreads, crashed, m_stopping, m_color_format, api, nals,
                 buf, stage, md, converter, lenSize>>

\* ------------------------------------------- tasks run by the main thread
MainTask(t) ==
  /\ pcM = "idle" /\ ~crashed /\ mainQ # <<>> /\ Head(mainQ).t = t

\* ProcessFrame_m: int64_t ts = data->ts / 1000;
FrameTs_raw(data_ts) == data_ts
FrameTs(data_ts) == data_ts \div NsPerUs

\* ProcessFrame_m: if (m_dur.size () == 0 && m_draining)
CacheDrained_anySize(m) == m_draining
CacheDrained(m) == MapSize(m) = 0 /\ m_draining

\* ProcessFrame_m: the callbacks of lines 498 and 502 in the order of the
\* source, drained telling that the test of line 501 held
CallbackOrder_drainFirst(drained) ==
  IF drained THEN <<"DrainComplete", "Decoded">> ELSE <<"Decoded">>
CallbackOrder(drained) ==
  IF drained THEN <<"Decoded", "DrainComplete">> ELSE <<"Decoded">>

\* ProcessFrame_m: m_callback->Decoded (frame) with the duration found in
\* the cache, then DrainComplete if that emptied the cache of a draining
\* session; o is the observation so far, rest the main thread's other tasks
PFm_Deliver(o, rest) ==
  LET ts  == FrameTs(Head(mainQ).a)
      dur == IF ts \in DOMAIN m_dur THEN m_dur[ts] ELSE 0
  IN
  /\ m_dur' = MapErase(m_dur, ts)
  /\ mainQ' = rest
  /\ pcH' = "pf_ret"
  /\ IF CacheDrained(m_dur')
     THEN /\ obs' = [Delivered(o, {"Decoded", "DrainComplete"}) EXCEPT
                       !.nDecoded = @ + 1,
                       !.lastDecoded = <<ts, dur>>,
                       !.nDrainComplete = @ + 1,
                       !.dcVia = @ \cup {"delivery"},
                       !.pfmOrders = @ \cup {CallbackOrder(TRUE)}]
          /\ m_draining' = FALSE
     ELSE /\ obs' = [Delivered(o, {"Decoded"}) EXCEPT
                       !.nDecoded = @ + 1,
                       !.lastDecoded = <<ts, dur>>,
                       !.pfmOrders = @ \cup {CallbackOrder(FALSE)}]
          /\ UNCHANGED m_draining

\* the error paths of ProcessFrame_m with their return statement missing
PFm_Fail_noReturn(o, rest) ==
  PFm_Deliver([o EXCEPT !.nFailed = @ + 1], Error(rest))

\* ProcessFrame_m: LOG; Error (err); return;
PFm_Fail(o, rest) ==
  /\ mainQ' = Error(rest)
  /\ obs' = [o EXCEPT !.nFailed = @ + 1]
  /\ pcH' = "pf_ret"
  /\ UNCHANGED <<m_dur, m_draining>>

\* ProcessFrame_m (run by syncrunonmainthread while the codec thread waits).
\* found: GetConverter matches the layout the codec reports;
\* ok: CreateFrame and Convert both succeed.
ProcessFrame_m(found, ok) ==
  /\ MainTask("PF_m")
  /\ CanAcquire(m_drain_lock, MainThread)
  /\ m_conv => found
  /\ ~found => ok
  /\ ~(found /\ ok) => MayFail
  /\ m_conv' = found
  /\ LET o == [Faulted(obs, Bit(~(found /\ ok))) EXCEPT
                 !.pfmReleased = @ \/ ~m_callback \/ ~m_host,
                 !.convFailAt = IF ~found /\ @ < 0 THEN obs.nDecoded ELSE @]
     IN
     IF ~found \/ (~ok /\ m_host)
     THEN \* converter not found, or CreateFrame / Convert failed
          /\ PFm_Fail(o, Tail(mainQ))
          /\ UNCHANGED crashed
     ELSE IF ~m_host \/ ~m_callback
     THEN \* m_host->CreateFrame / m_callback->Decoded through a null pointer
          /\ crashed' = TRUE
          /\ mainQ' = Tail(mainQ)
          /\ obs' = o
          /\ UNCHANGED <<m_dur, m_draining, pcH>>
     ELSE /\ PFm_Deliver(o, Tail(mainQ))
          /\ UNCHANGED crashed
  /\ UNCHANGED <<m_callback, m_host, m_codec, m_submit_thread,
                 m_dropConverter, m_resetting, m_processing, m_codec_lock,
                 m_drain_lock, pcM, pcW, workerQ, wFrame, hFrame, cfg,
                 codecs, nThreads, m_stopping, m_color_format, api, nals,
                 buf, stage, md, converter, lenSize>>

\* Reset_m, up to the first blocking point (ResetCodec: drain, then Join)
Reset_m ==
  /\ MainTask("Reset_m")
  /\ mainQ' = Tail(mainQ)
  /\ obs' = [obs EXCEPT !.resetInDelivery = @ \/ m_processing,
                        !.badHandle = @ \/ Destroyed(m_codec)]
  /\ codecs' = CodecDrain(m_codec)
  /\ crashed' \in IF Destroyed(m_codec) THEN BOOLEAN ELSE {crashed}
  /\ pcM' = IF m_codec = 0 THEN "rm_finish"
            ELSE IF m_submit_thread # 0 THEN "rc_join" ELSE "rc_stop"
  /\ UNCHANGED <<m_callback, m_host, m_codec, m_submit_thread, m_conv,
                 m_dropConverter, m_draining, m_resetting, m_processing,
                 m_dur, m_codec_lock, m_drain_lock, pcW, pcH, workerQ,
                 wFrame, hFrame, cfg, nThreads, m_stopping, m_color_format,
                 api, nals, buf, stage, md, converter, lenSize>>

\* ResetCodec: m_submit_thread->Join () returns once the submit thread has
\* run every posted task
ResetCodec_join ==
  /\ pcM = "rc_join" /\ ~crashed
  /\ workerQ = <<>> /\ pcW = "idle"
  /\ m_submit_thread' = 0
  /\ pcM' = "rc_stop"
  /\ UNCHANGED <<m_callback, m_host, m_codec, m_conv, m_dropConverter,
                 m_draining, m_resetting, m_processing, m_dur, m_codec_lock,
                 m_drain_lock, pcW, pcH, mainQ, workerQ, wFrame, hFrame, cfg,
                 codecs, nThreads, crashed, obs, m_stopping, m_color_format,
                 api, nals, buf, stage, md, converter, lenSize>>

\* ResetCodec from m_codec_lock->Acquire () to the end. droid_media_codec_stop
\* returns when the codec thread is out of its callbacks.
ResetCodec_stop ==
  /\ pcM = "rc_stop" /\ ~crashed
  /\ CanAcquire(m_codec_lock, MainThread)
  /\ m_codec # 0 => pcH = "idle"
  /\ codecs' = IF m_codec # 0
               THEN [codecs EXCEPT ![m_codec].st = "destroyed"]
               ELSE codecs
  /\ m_codec' = 0
  /\ m_dur' = EmptyMap
  /\ m_dropConverter' = TRUE
  /\ pcM' = "rm_finish"
  /\ UNCHANGED <<m_callback, m_host, m_submit_thread, m_conv, m_draining,
                 m_resetting, m_processing, m_codec_lock, m_drain_lock, pcW,
                 pcH, mainQ, workerQ, wFrame, hFrame, cfg, nThreads, crashed,
                 obs, m_stopping, m_color_format, api, nals, buf, stage, md,
                 converter, lenSize>>

\* Reset_m after ResetCodec
Reset_m_finish ==
  /\ pcM = "rm_finish" /\ ~crashed
  /\ CanAcquire(m_drain_lock, MainThread)
  /\ m_draining' = FALSE
  /\ m_resetting' = FALSE
  /\ pcM' = "idle"
  /\ obs' = IF m_callback
            THEN [Delivered(obs, {"ResetComplete"}) EXCEPT
                    !.nResetComplete = @ + 1,
                    !.postedSinceReset = FALSE]
            ELSE [obs EXCEPT !.postedSinceReset = FALSE]
  /\ UNCHANGED <<m_callback, m_host, m_codec, m_submit_thread, m_conv,
                 m_dropConverter, m_processing, m_dur, m_codec_lock,
                 m_drain_lock, pcW, pcH, mainQ, workerQ, wFrame, hFrame, cfg,
                 codecs, nThreads, crashed, m_stopping, m_color_format, api,
                 nals, buf, stage, md, converter, lenSize>>

\* a task WrapTask (m_callback, &GMPVideoDecoderCallback::X): the callback
\* pointer was bound when the task was posted
CallbackTask(name) ==
  /\ MainTask(name)
  /\ mainQ' = Tail(mainQ)
  /\ IF Head(mainQ).a = 0
     THEN crashed' = TRUE /\ UNCHANGED obs
     ELSE /\ UNCHANGED crashed
          /\ obs' = IF name = "cbError" THEN Delivered(obs, {"Error"})
                    ELSE IF name = "cbIDE"
                    THEN Delivered(obs, {"InputDataExhausted"})
                    ELSE [Delivered(obs, {"DrainComplete"}) EXCEPT
                            !.nDrainComplete = @ + 1,
                            !.dcVia = @ \cup {"eos"}]
  /\ UNCHANGED <<m_callback, m_host, m_codec, m_submit_thread, m_conv,
                 m_dropConverter, m_draining, m_resetting, m_processing,
                 m_dur, m_codec_lock, m_drain_lock, pcM, pcW, pcH, workerQ,
                 wFrame, hFrame, cfg, codecs, nThreads, m_stopping,
                 m_color_format, api, nals, buf, stage, md, converter,
                 lenSize>>

\* the task WrapTask (decoder, &DroidVideoDecoder::Error, GMPDecodeErr)
\* posted by DroidError
Error_m ==
  /\ MainTask("Error_m")
  /\ mainQ' = Error(Tail(mainQ))
  /\ UNCHANGED <<m_callback, m_host, m_codec, m_submit_thread, m_conv,
                 m_dropConverter, m_draining, m_resetting, m_processing,
                 m_dur, m_codec_lock, m_drain_lock, pcM, pcW, pcH, workerQ,
                 wFrame, hFrame, cfg, codecs, nThreads, crashed, obs,
                 m_stopping, m_color_format, api, nals, buf, stage, md,
                 converter, lenSize>>

\* --------------------------------------------------------- submit thread
\* SubmitBufferThread, lines 259-263, without the test of m_draining
InputDataExhausted_always(q) ==
  IF m_callback THEN Append(q, Task("cbIDE", 1)) ELSE q
\* SubmitBufferThread, lines 259-263: post m_callback->InputDataExhausted to
\* the main thread; q is the main-thread queue
InputDataExhausted(q) ==
  IF ~m_draining /\ m_callback THEN Append(q, Task("cbIDE", 1)) ELSE q

\* SubmitBufferThread from its start to the first blocking point
SubmitBufferThread ==
  /\ pcW = "idle" /\ ~crashed /\ workerQ # <<>>
  /\ CanAcquire(m_drain_lock, SubmitThread)
  /\ workerQ' = Tail(workerQ)
  /\ IF m_draining
     THEN \* cb.unref; return
          /\ obs' = [obs EXCEPT !.nUnref = @ + 1]
          /\ UNCHANGED <<pcW, wFrame, m_drain_lock>>
     ELSE IF m_codec # 0
     THEN /\ pcW' = "w_chkreset"
          /\ wFrame' = Head(workerQ)
          /\ UNCHANGED <<m_drain_lock, obs>>
     ELSE \* CreateCodec is called with the drain lock held
          /\ pcW' = "cc_create"
          /\ wFrame' = Head(workerQ)
          /\ m_drain_lock' = Acquire(m_drain_lock, SubmitThread)
          /\ UNCHANGED obs
  /\ UNCHANGED <<m_callback, m_host, m_codec, m_submit_thread, m_conv,
                 m_dropConverter, m_draining, m_resetting, m_processing,
                 m_dur, m_codec_lock, pcM, pcH, mainQ, hFrame, cfg, codecs,
                 nThreads, crashed, m_stopping, m_color_format, api, nals,
                 buf, stage, md, converter, lenSize>>

\* CreateCodec: m_codec_lock->Acquire (), droid_media_codec_create_decoder,
\* callbacks, m_draining = false.  When the decoder cannot be created the
\* function returns without releasing the codec lock.
CreateCodec_create(created) ==
  /\ pcW = "cc_create" /\ ~crashed
  /\ CanAcquire(m_codec_lock, SubmitThread)
  /\ created => NextHandle <= MaxCodecs
  /\ ~created => (obs.nCreateFail < MaxCreateFailures \/ NextHandle > MaxCodecs)
  /\ m_codec_lock' = Acquire(m_codec_lock, SubmitThread)
  /\ IF created
     THEN /\ m_codec' = NextHandle
          /\ codecs' = [codecs EXCEPT ![NextHandle].st = "created"]
          /\ m_draining' = FALSE
          /\ pcW' = "cc_start"
          /\ UNCHANGED <<mainQ, m_drain_lock, wFrame, obs>>
     ELSE /\ m_codec' = 0
          /\ mainQ' = Error(mainQ)
          /\ m_drain_lock' = Release(m_drain_lock)
          /\ pcW' = "idle"
          /\ wFrame' = 0
          /\ obs' = [obs EXCEPT !.nCreateFail =
                               IF @ < MaxCreateFailures THEN @ + 1 ELSE @,
                             !.nUnref = @ + 1]
          /\ UNCHANGED <<codecs, m_draining>>
  /\ UNCHANGED <<m_callback, m_host, m_submit_thread, m_conv,
                 m_dropConverter, m_resetting, m_processing, m_dur, pcM, pcH,
                 workerQ, hFrame, cfg, nThreads, crashed, m_stopping,
                 m_color_format, api, nals, buf, stage, md, converter,
                 lenSize>>

\* CreateCodec: droid_media_codec_start; when it fails,
\* droid_media_codec_destroy and the release of the codec lock, with m_codec
\* still set
CreateCodec_start(started) ==
  /\ pcW = "cc_start" /\ ~crashed
  /\ ~started => MayFail
  /\ m_codec_lock' = Release(m_codec_lock)
  /\ obs' = Faulted(obs, Bit(~started))
  /\ IF started
     THEN /\ codecs' = [codecs EXCEPT ![m_codec].st = "started"]
          /\ m_drain_lock' = Release(m_drain_lock)
          /\ pcW' = "w_chkreset"
     ELSE /\ codecs' = [codecs EXCEPT ![m_codec].st = "destroyed"]
          /\ pcW' = "cc_fail"
          /\ UNCHANGED m_drain_lock
  /\ UNCHANGED <<m_callback, m_host, m_codec, m_submit_thread, m_conv,
                 m_dropConverter, m_draining, m_resetting, m_processing,
                 m_dur, pcM, pcH, mainQ, workerQ, wFrame, hFrame, cfg,
                 nThreads, crashed, m_stopping, m_color_format, api, nals,
                 buf, stage, md, converter, lenSize>>

\* CreateCodec after a failed start: m_codec = nullptr, Error, return false;
\* SubmitBufferThread releases the copy and the drain lock
CreateCodec_fail ==
  /\ pcW = "cc_fail" /\ ~crashed
  /\ m_codec' = 0
  /\ mainQ' = Error(mainQ)
  /\ obs' = [obs EXCEPT !.nUnref = @ + 1]
  /\ m_drain_lock' = Release(m_drain_lock)
  /\ pcW' = "idle"
  /\ wFrame' = 0
  /\ UNCHANGED <<m_callback, m_host, m_submit_thread, m_conv,
                 m_dropConverter, m_draining, m_resetting, m_processing,
                 m_dur, m_codec_lock, pcM, pcH, workerQ, hFrame, cfg, codecs,
                 nThreads, crashed, m_stopping, m_color_format, api, nals,
                 buf, stage, md, converter, lenSize>>

\* SubmitBufferThread: if (m_resetting) return;
SubmitBuffer_checkReset ==
  /\ pcW = "w_chkreset" /\ ~crashed
  /\ IF m_resetting
     THEN pcW' = "idle" /\ wFrame' = 0
     ELSE pcW' = "w_queue" /\ UNCHANGED wFrame
  /\ UNCHANGED <<m_callback, m_host, m_codec, m_submit_thread, m_conv,
                 m_dropConverter, m_draining, m_resetting, m_processing,
                 m_dur, m_codec_lock, m_drain_lock, pcM, pcH, mainQ, workerQ,
                 hFrame, cfg, codecs, nThreads, crashed, obs, m_stopping,
                 m_color_format, api, nals, buf, stage, md, converter,
                 lenSize>>

\* SubmitBufferThread: droid_media_codec_queue (m_codec, &cdata, &cb)
SubmitBuffer_queue ==
  /\ pcW = "w_queue" /\ ~crashed
  /\ pcW' = "w_post"
  /\ IF m_codec # 0 /\ codecs[m_codec].st \in {"created", "started", "eos"}
     THEN /\ codecs' = [codecs EXCEPT ![m_codec].q[wFrame] = @ + 1]
          /\ obs' = [obs EXCEPT !.nQueued = @ + 1]
          /\ UNCHANGED crashed
     ELSE /\ crashed' = TRUE
          /\ obs' = [obs EXCEPT !.badHandle = TRUE]
          /\ UNCHANGED codecs
  /\ UNCHANGED <<m_callback, m_host, m_codec, m_submit_thread, m_conv,
                 m_dropConverter, m_draining, m_resetting, m_processing,
                 m_dur, m_codec_lock, m_drain_lock, pcM, pcH, mainQ, workerQ,
                 wFrame, hFrame, cfg, nThreads, m_stopping, m_color_format,
                 api, nals, buf, stage, md, converter, lenSize>>

\* SubmitBufferThread calling InputDataExhausted itself instead of posting it
SubmitBuffer_post_direct ==
  /\ pcW = "w_post" /\ ~crashed
  /\ CanAcquire(m_drain_lock, SubmitThread)
  /\ obs' = IF ~m_draining /\ m_callback
            THEN Delivered(obs, {"InputDataExhausted"}) ELSE obs
  /\ pcW' = "idle"
  /\ wFrame' = 0
  /\ UNCHANGED <<m_callback, m_host, m_codec, m_submit_thread, m_conv,
                 m_dropConverter, m_draining, m_resetting, m_processing,
                 m_dur, m_codec_lock, m_drain_lock, pcM, pcH, mainQ, workerQ,
                 hFrame, cfg, codecs, nThreads, crashed, m_stopping,
                 m_color_format, api, nals, buf, stage, md, converter,
                 lenSize>>
\* SubmitBufferThread: InputDataExhausted unless draining
SubmitBuffer_post ==
  /\ pcW = "w_post" /\ ~crashed
  /\ CanAcquire(m_drain_lock, SubmitThread)
  /\ mainQ' = InputDataExhausted(mainQ)
  /\ pcW' = "idle"
  /\ wFrame' = 0
  /\ UNCHANGED <<m_callback, m_host, m_codec, m_submit_thread, m_conv,
                 m_dropConverter, m_draining, m_resetting, m_processing,
                 m_dur, m_codec_lock, m_drain_lock, pcM, pcH, workerQ,
                 hFrame, cfg, codecs, nThreads, crashed, obs, m_stopping,
                 m_color_format, api, nals, buf, stage, md, converter,
                 lenSize>>

\* ---------------------------------------------------------- codec thread
HwCallback(h) == pcH = "idle" /\ ~crashed /\ codecs[h].st = "started"

\* ProcessFrame without the test of m_resetting
ProcessFrame_keepsAll(h, ts) ==
  /\ HwCallback(h) /\ codecs[h].q[ts] > 0
  /\ codecs' = [codecs EXCEPT ![h].q[ts] = @ - 1]
  /\ m_conv' = IF m_dropConverter THEN FALSE ELSE m_conv
  /\ m_dropConverter' = FALSE
  /\ IF ~m_callback \/ ~m_host
     THEN /\ obs' = [obs EXCEPT !.nDataAvail = @ + 1, !.nDiscarded = @ + 1]
          /\ UNCHANGED <<m_processing, pcH, hFrame>>
     ELSE /\ m_processing' = TRUE
          /\ pcH' = "pf_post"
          /\ hFrame' = ts * NsPerUs
          /\ obs' = [obs EXCEPT !.nDataAvail = @ + 1]
  /\ UNCHANGED <<m_callback, m_host, m_codec, m_submit_thread, m_draining,
                 m_resetting, m_dur, m_codec_lock, m_drain_lock, pcM, pcW,
                 mainQ, workerQ, wFrame, cfg, nThreads, crashed, m_stopping,
                 m_color_format, api, nals, buf, stage, md, converter,
                 lenSize>>
\* DataAvailable -> ProcessFrame, first locked section.  The codec reports
\* the timestamp it was given (usec) in nsec.
ProcessFrame(h, ts) ==
  /\ HwCallback(h) /\ codecs[h].q[ts] > 0
  /\ codecs' = [codecs EXCEPT ![h].q[ts] = @ - 1]
  /\ m_conv' = IF m_dropConverter THEN FALSE ELSE m_conv
  /\ m_dropConverter' = FALSE
  /\ IF m_resetting \/ ~m_callback \/ ~m_host
     THEN /\ obs' = [obs EXCEPT !.nDataAvail = @ + 1, !.nDiscarded = @ + 1]
          /\ UNCHANGED <<m_processing, pcH, hFrame>>
     ELSE /\ m_processing' = TRUE
          /\ pcH' = "pf_post"
          /\ hFrame' = ts * NsPerUs
          /\ obs' = [obs EXCEPT !.nDataAvail = @ + 1]
  /\ UNCHANGED <<m_callback, m_host, m_codec, m_submit_thread, m_draining,
                 m_resetting, m_dur, m_codec_lock, m_drain_lock, pcM, pcW,
                 mainQ, workerQ, wFrame, cfg, nThreads, crashed, m_stopping,
                 m_color_format, api, nals, buf, stage, md, converter,
                 lenSize>>

\* ProcessFrame: syncrunonmainthread (ProcessFrame_m) posts and waits
ProcessFrame_sync ==
  /\ pcH = "pf_post" /\ ~crashed
  /\ mainQ' = Append(mainQ, Task("PF_m", hFrame))
  /\ pcH' = "pf_wait"
  /\ UNCHANGED <<m_callback, m_host, m_codec, m_submit_thread, m_conv,
                 m_dropConverter, m_draining, m_resetting, m_processing,
                 m_dur, m_codec_lock, m_drain_lock, pcM, pcW, workerQ,
                 wFrame, hFrame, cfg, codecs, nThreads, crashed, obs,
                 m_stopping, m_color_format, api, nals, buf, stage, md,
                 converter, lenSize>>

\* ProcessFrame: second locked section, after syncrunonmainthread returned
ProcessFrame_return ==
  /\ pcH = "pf_ret" /\ ~crashed
  /\ m_processing' = FALSE
  /\ mainQ' = IF m_resetting THEN Append(mainQ, Task("Reset_m", 0)) ELSE mainQ
  /\ pcH' = "idle"
  /\ hFrame' = 0
  /\ UNCHANGED <<m_callback, m_host, m_codec, m_submit_thread, m_conv,
                 m_dropConverter, m_draining, m_resetting, m_dur,
                 m_codec_lock, m_drain_lock, pcM, pcW, workerQ, wFrame, cfg,
                 codecs, nThreads, crashed, obs, m_stopping, m_color_format,
                 api, nals, buf, stage, md, converter, lenSize>>

\* SignalEOS -> EOS: post DrainComplete (bound to the current m_callback).
\* The codec signals end of stream once, after a drain request, and reads no
\* input afterwards.
EOS(h) ==
  /\ HwCallback(h) /\ codecs[h].drainReq
  /\ mainQ' = Append(mainQ, Task("cbDrainComplete", Ptr(m_callback)))
  /\ codecs' = [codecs EXCEPT ![h].st = "eos"]
  /\ pcH' = "eos_clear"
  /\ UNCHANGED <<m_callback, m_host, m_codec, m_submit_thread, m_conv,
                 m_dropConverter, m_draining, m_resetting, m_processing,
                 m_dur, m_codec_lock, m_drain_lock, pcM, pcW, workerQ,
                 wFrame, hFrame, cfg, nThreads, crashed, obs, m_stopping,
                 m_color_format, api, nals, buf, stage, md, converter,
                 lenSize>>

\* std::map::clear: the cache with nothing in it
Clear_kept(m) == m
Clear(m) == EmptyMap

\* EOS: m_dur.clear ()
EOS_clear ==
  /\ pcH = "eos_clear" /\ ~crashed
  /\ m_dur' = Clear(m_dur)
  /\ pcH' = "idle"
  /\ UNCHANGED <<m_callback, m_host, m_codec, m_submit_thread, m_conv,
                 m_dropConverter, m_draining, m_resetting, m_processing,
                 m_codec_lock, m_drain_lock, pcM, pcW, mainQ, workerQ,
                 wFrame, hFrame, cfg, codecs, nThreads, crashed, obs,
                 m_stopping, m_color_format, api, nals, buf, stage, md,
                 converter, lenSize>>

\* DroidError: post DroidVideoDecoder::Error to the main thread
DroidError(h) ==
  /\ HwCallback(h) /\ MayFail
  /\ obs' = Faulted(obs, 1)
  /\ mainQ' = Append(mainQ, Task("Error_m", 0))
  /\ UNCHANGED <<m_callback, m_host, m_codec, m_submit_thread, m_conv,
                 m_dropConverter, m_draining, m_resetting, m_processing,
                 m_dur, m_codec_lock, m_drain_lock, pcM, pcW, pcH, workerQ,
                 wFrame, hFrame, cfg, codecs, nThreads, crashed, m_stopping,
                 m_color_format, api, nals, buf, stage, md, converter,
                 lenSize>>

\* SizeChanged -> RequestNewConverter
SizeChanged(h) ==
  /\ HwCallback(h) /\ ~m_dropConverter
  /\ m_dropConverter' = TRUE
  /\ UNCHANGED <<m_callback, m_host, m_codec, m_submit_thread, m_conv,
                 m_draining, m_resetting, m_processing, m_dur, m_codec_lock,
                 m_drain_lock, pcM, pcW, pcH, mainQ, workerQ, wFrame, hFrame,
                 cfg, codecs, nThreads, crashed, obs, m_stopping,
                 m_color_format, api, nals, buf, stage, md, converter,
                 lenSize>>

\* ------------------------------------------------------------------ system
Next ==
  \/ \E supported \in BOOLEAN : InitDecode(supported)
  \/ \E ts \in TS, dur \in Durs, bufOk \in BOOLEAN, thrOk \in BOOLEAN :
        Decode(ts, dur, bufOk, thrOk)
  \/ Drain
  \/ Drain_locked
  \/ Reset
  \/ DecodingComplete
  \/ \E found \in BOOLEAN, ok \in BOOLEAN : ProcessFrame_m(found, ok)
  \/ Reset_m
  \/ ResetCodec_join
  \/ ResetCodec_stop
  \/ Reset_m_finish
  \/ \E name \in {"cbError", "cbIDE", "cbDrainComplete"} : CallbackTask(name)
  \/ Error_m
  \/ SubmitBufferThread
  \/ \E created \in BOOLEAN : CreateCodec_create(created)
  \/ \E started \in BOOLEAN : CreateCodec_start(started)
  \/ CreateCodec_fail
  \/ SubmitBuffer_checkReset
  \/ SubmitBuffer_queue
  \/ SubmitBuffer_post
  \/ \E h \in DOMAIN codecs, ts \in TS : ProcessFrame(h, ts)
  \/ ProcessFrame_sync
  \/ ProcessFrame_return
  \/ \E h \in DOMAIN codecs : EOS(h)
  \/ EOS_clear
  \/ \E h \in DOMAIN codecs : DroidError(h)
  \/ \E h \in DOMAIN codecs : SizeChanged(h)

Spec == Init /\ [][Next]_vars


\* ================================================================ encoder
\* Encode session (class DroidVideoEncoder).  Two threads: the GMP main
\* thread (InitEncode, Encode, EncodingComplete and the posted tasks) and
\* the droidmedia codec thread (DataAvailable, DroidError).  EOS only logs.
ColourFormats == {Planar, SemiPlanar, OtherFormat}
RECURSIVE FormatLists(_)
FormatLists(n) ==
  IF n = 0 THEN {<<>>}
  ELSE FormatLists(n - 1) \cup
       {Append(l, f) : l \in FormatLists(n - 1), f \in ColourFormats}

\* InitEncode's loop over supportedFormats[i .. nFormats-1], cur being
\* m_metadata.color_format so far
RECURSIVE PickFormat_last(_, _, _)
PickFormat_last(list, i, cur) ==
  IF i > Len(list) THEN cur
  ELSE PickFormat_last(list, i + 1,
                       IF list[i] \in {Planar, SemiPlanar}
                       THEN list[i] ELSE cur)
RECURSIVE PickFormat(_, _, _)
PickFormat(list, i, cur) ==
  IF i > Len(list) THEN cur
  ELSE PickFormat(list, i + 1,
                  IF cur = NoFormat /\ list[i] \in {Planar, SemiPlanar}
                  THEN list[i] ELSE cur)

EncInit ==
  /\ NewSession
  /\ api = "encode-video"
  /\ m_stopping = FALSE
  \* m_metadata is not initialised by the constructor
  /\ m_color_format \in ColourFormats \cup {NoFormat, Zeroed}
  /\ NoFrame

\* InitEncode: supported is the answer of droid_media_codec_is_supported,
\* formats the list droid_media_codec_get_supported_color_formats fills in
InitEncode(supported, formats) ==
  /\ pcM = "idle" /\ ~crashed /\ cfg = "none"
  /\ ~supported => (MayFail /\ formats = <<>>)
  /\ m_callback' = TRUE
  /\ IF ~supported
     THEN /\ m_color_format' = Zeroed
          /\ mainQ' = Error_bound(mainQ)
          /\ cfg' = "unsupported"
          /\ obs' = [Faulted(obs, 1) EXCEPT !.initErr = "GMPNotImplementedErr"]
     ELSE LET fmt == PickFormat(formats, 1, NoFormat) IN
          /\ m_color_format' = fmt
          /\ mainQ' = IF fmt = NoFormat THEN Error_bound(mainQ) ELSE mainQ
          /\ cfg' = IF fmt = NoFormat THEN "noformat" ELSE "ok"
          /\ obs' = [obs EXCEPT !.formats = formats,
                                !.initErr = IF fmt = NoFormat
                                            THEN "GMPNotImplementedErr"
                                            ELSE "none"]
  /\ UNCHANGED <<m_host, m_codec, m_submit_thread, m_conv, m_dropConverter,
                 m_draining, m_resetting, m_processing, m_dur, m_codec_lock,
                 m_drain_lock, pcM, pcW, pcH, workerQ, wFrame, hFrame,
                 codecs, nThreads, crashed, m_stopping, api, nals, buf,
                 stage, md, converter, lenSize>>

\* Encode, with CreateEncoder when there is no codec: created / started are
\* the results of droid_media_codec_create_encoder / droid_media_codec_start
Encode(ts, created, started) ==
  /\ HostMayCall /\ MayCall /\ obs.nEncodeCalls < MaxFrames
  /\ m_codec # 0 => (created /\ started)
  /\ ~created => started
  /\ (m_codec = 0 /\ created) => NextHandle <= MaxCodecs
  /\ (m_codec = 0 /\ ~(created /\ started)) =>
        (obs.nFaults < MaxFaults /\ Events + 1 < MaxEvents)
  /\ IF m_codec # 0
     THEN /\ codecs' = [codecs EXCEPT ![m_codec].q[ts] = @ + 1]
          /\ obs' = [obs EXCEPT !.nEncodeCalls = @ + 1]
          /\ UNCHANGED <<m_codec, mainQ>>
     ELSE IF ~created
     THEN /\ mainQ' = Error(mainQ)
          /\ obs' = [Faulted(obs, 1) EXCEPT !.nEncodeCalls = @ + 1]
          /\ UNCHANGED <<m_codec, codecs>>
     ELSE IF ~started
     THEN /\ codecs' = [codecs EXCEPT ![NextHandle].st = "destroyed"]
          /\ mainQ' = Error(mainQ)
          /\ obs' = [Faulted(obs, 1) EXCEPT !.nEncodeCalls = @ + 1]
          /\ UNCHANGED m_codec
     ELSE /\ m_codec' = NextHandle
          /\ codecs' = [codecs EXCEPT ![NextHandle].st = "started",
                                      ![NextHandle].q[ts] = @ + 1]
          /\ obs' = [obs EXCEPT !.nEncodeCalls = @ + 1]
          /\ UNCHANGED mainQ
  /\ UNCHANGED <<m_callback, m_host, m_submit_thread, m_conv,
                 m_dropConverter, m_draining, m_resetting, m_processing,
                 m_dur, m_codec_lock, m_drain_lock, pcM, pcW, pcH, workerQ,
                 wFrame, hFrame, cfg, nThreads, crashed, m_stopping,
                 m_color_format, api, nals, buf, stage, md, converter,
                 lenSize>>

\* EncodingComplete up to droid_media_codec_stop: called by the host, or
\* (posted) run as the task DataAvailable posts
EncodingComplete(posted) ==
  /\ IF posted
     THEN /\ MainTask("EncodingComplete")
          /\ mainQ' = Tail(mainQ)
          /\ UNCHANGED obs
     ELSE /\ HostMayCall
          /\ obs' = [obs EXCEPT !.shutdown = TRUE,
                                !.ecDeferred = m_processing]
          /\ UNCHANGED mainQ
  /\ m_stopping' = TRUE
  /\ pcM' = IF m_processing THEN "idle" ELSE "ec_stop"
  /\ UNCHANGED <<m_callback, m_host, m_codec, m_submit_thread, m_conv,
                 m_dropConverter, m_draining, m_resetting, m_processing,
                 m_dur, m_codec_lock, m_drain_lock, pcW, pcH, workerQ,
                 wFrame, hFrame, cfg, codecs, nThreads, crashed,
                 m_color_format, api, nals, buf, stage, md, converter,
                 lenSize>>

\* EncodingComplete: droid_media_codec_stop returns once the codec thread is
\* out of its callbacks.  m_codec is passed on unchecked: with a null handle
\* droidmedia either dereferences it (dies) or returns
EncodingComplete_stop(dies) ==
  /\ pcM = "ec_stop" /\ ~crashed
  /\ m_codec # 0 => (pcH = "idle" /\ ~dies)
  /\ IF dies
     THEN /\ crashed' = TRUE
          /\ obs' = [obs EXCEPT !.badHandle = TRUE]
          /\ UNCHANGED <<codecs, m_stopping, m_codec, pcM>>
     ELSE /\ codecs' = IF m_codec = 0 THEN codecs
                       ELSE [codecs EXCEPT ![m_codec].st = "destroyed"]
          /\ obs' = [obs EXCEPT !.nStops = @ + 1,
                                !.badHandle = @ \/ m_codec = 0]
          /\ m_stopping' = FALSE
          /\ m_codec' = 0
          /\ pcM' = "idle"
          /\ UNCHANGED crashed
  /\ UNCHANGED <<m_callback, m_host, m_submit_thread, m_conv,
                 m_dropConverter, m_draining, m_resetting, m_processing,
                 m_dur, m_codec_lock, m_drain_lock, pcW, pcH, mainQ, workerQ,
                 wFrame, hFrame, cfg, nThreads, m_color_format, api, nals,
                 buf, stage, md, converter, lenSize>>

\* FrameAvailable: ok is FALSE when CreateFrame or CreateEmptyFrame fails
FrameAvailable(ok) ==
  /\ MainTask("FrameAvailable")
  /\ ~ok => MayFail
  /\ mainQ' = Tail(mainQ)
  /\ pcH' = "pf_ret"
  /\ obs' = IF ok
            THEN [Delivered(obs, {"Encoded"}) EXCEPT !.nEncoded = @ + 1]
            ELSE [Faulted(obs, 1) EXCEPT !.nFailed = @ + 1]
  /\ UNCHANGED <<m_callback, m_host, m_codec, m_submit_thread, m_conv,
                 m_dropConverter, m_draining, m_resetting, m_processing,
                 m_dur, m_codec_lock, m_drain_lock, pcM, pcW, workerQ,
                 wFrame, hFrame, cfg, codecs, nThreads, crashed, m_stopping,
                 m_color_format, api, nals, buf, stage, md, converter,
                 lenSize>>

\* the task WrapTask (encoder, &DroidVideoEncoder::Error, GMPDecodeErr)
Encoder_Error_m ==
  /\ MainTask("Encoder_Error")
  /\ mainQ' = Error(Tail(mainQ))
  /\ UNCHANGED <<m_callback, m_host, m_codec, m_submit_thread, m_conv,
                 m_dropConverter, m_draining, m_resetting, m_processing,
                 m_dur, m_codec_lock, m_drain_lock, pcM, pcW, pcH, workerQ,
                 wFrame, hFrame, cfg, codecs, nThreads, crashed, obs,
                 m_stopping, m_color_format, api, nals, buf, stage, md,
                 converter, lenSize>>

\* DataAvailable, first locked section
Encoder_DataAvailable(h, ts) ==
  /\ HwCallback(h) /\ codecs[h].q[ts] > 0
  /\ codecs' = [codecs EXCEPT ![h].q[ts] = @ - 1]
  /\ IF m_stopping
     THEN /\ obs' = [obs EXCEPT !.nDataAvail = @ + 1, !.nDiscarded = @ + 1]
          /\ UNCHANGED <<m_processing, pcH, hFrame>>
     ELSE /\ m_processing' = TRUE
          /\ pcH' = "pf_post"
          /\ hFrame' = ts * NsPerUs
          /\ obs' = [obs EXCEPT !.nDataAvail = @ + 1,
                                !.stoppingAccepted = @ \/ m_stopping]
  /\ UNCHANGED <<m_callback, m_host, m_codec, m_submit_thread, m_conv,
                 m_dropConverter, m_draining, m_resetting, m_dur,
                 m_codec_lock, m_drain_lock, pcM, pcW, mainQ, workerQ,
                 wFrame, cfg, nThreads, crashed, m_stopping, m_color_format,
                 api, nals, buf, stage, md, converter, lenSize>>

\* DataAvailable: syncrunonmainthread (FrameAvailable) posts and waits
Encoder_DataAvailable_sync ==
  /\ pcH = "pf_post" /\ ~crashed
  /\ mainQ' = Append(mainQ, Task("FrameAvailable", hFrame))
  /\ pcH' = "pf_wait"
  /\ UNCHANGED <<m_callback, m_host, m_codec, m_submit_thread, m_conv,
                 m_dropConverter, m_draining, m_resetting, m_processing,
                 m_dur, m_codec_lock, m_drain_lock, pcM, pcW, workerQ,
                 wFrame, hFrame, cfg, codecs, nThreads, crashed, obs,
                 m_stopping, m_color_format, api, nals, buf, stage, md,
                 converter, lenSize>>

\* DataAvailable: if (m_stopping), read under m_stop_lock
StopPending_never == FALSE
StopPending == m_stopping

\* DataAvailable: second locked section
Encoder_DataAvailable_return ==
  /\ pcH = "pf_ret" /\ ~crashed
  /\ m_processing' = FALSE
  /\ mainQ' = IF StopPending
              THEN Append(mainQ, Task("EncodingComplete", 0)) ELSE mainQ
  /\ pcH' = "idle"
  /\ hFrame' = 0
  /\ UNCHANGED <<m_callback, m_host, m_codec, m_submit_thread, m_conv,
                 m_dropConverter, m_draining, m_resetting, m_dur,
                 m_codec_lock, m_drain_lock, pcM, pcW, workerQ, wFrame, cfg,
                 codecs, nThreads, crashed, obs, m_stopping, m_color_format,
                 api, nals, buf, stage, md, converter, lenSize>>

\* DroidError: post DroidVideoEncoder::Error to the main thread
Encoder_DroidError(h) ==
  /\ HwCallback(h) /\ MayFail
  /\ obs' = Faulted(obs, 1)
  /\ mainQ' = Append(mainQ, Task("Encoder_Error", 0))
  /\ UNCHANGED <<m_callback, m_host, m_codec, m_submit_thread, m_conv,
                 m_dropConverter, m_draining, m_resetting, m_processing,
                 m_dur, m_codec_lock, m_drain_lock, pcM, pcW, pcH, workerQ,
                 wFrame, hFrame, cfg, codecs, nThreads, crashed, m_stopping,
                 m_color_format, api, nals, buf, stage, md, converter,
                 lenSize>>

EncNext ==
  \/ \E supported \in BOOLEAN, formats \in FormatLists(MaxFormats) :
        InitEncode(supported, formats)
  \/ \E ts \in TS, created \in BOOLEAN, started \in BOOLEAN :
        Encode(ts, created, started)
  \/ \E posted \in BOOLEAN : EncodingComplete(posted)
  \/ \E dies \in BOOLEAN : EncodingComplete_stop(dies)
  \/ \E ok \in BOOLEAN : FrameAvailable(ok)
  \/ CallbackTask("cbError")
  \/ Encoder_Error_m
  \/ \E h \in DOMAIN codecs, ts \in TS : Encoder_DataAvailable(h, ts)
  \/ Encoder_DataAvailable_sync
  \/ Encoder_DataAvailable_return
  \/ \E h \in DOMAIN codecs : Encoder_DroidError(h)

EncSpec == EncInit /\ [][EncNext]_vars

\* ============================================================ both classes
\* a session of either class, as GMPGetAPI hands them out
GmpInit == Init \/ EncInit
GmpNext ==
  \/ api = "decode-video" /\ Next
  \/ api = "encode-video" /\ EncNext
GmpSpec == GmpInit /\ [][GmpNext]_vars

\* ========================================================= NAL reframing
\* The byte-level work of Decode (H.264, GMP_BufferLength32) and of
\* ConvertNalUnits on one frame buffer.  Offsets are counted from 0 as in
\* the source; buf[o + 1] is the byte at offset o.
Length32 == 4            \* start_code_len / nalStartSize of GMP_BufferLength32
\* static const uint8_t code[] = { 0x00, 0x00, 0x00, 0x01 };
StartCode == <<0, 0, 0, 1>>
\* bytes of the NAL payloads: 103 = 0x67 is an SPS header (type 7), 1 a
\* non-IDR slice header (type 1), 0 a zero byte.  With every byte below 128
\* a 4-byte number is below 2^31 and no sum of the uint32_t arithmetic
\* wraps; a negative difference is written in two's complement.
PayloadBytes == {0, 1, 103}

\* the byte at offset o; oob is what a read past the end of the buffer gives
ByteAt(b, o, oob) == IF o < Len(b) THEN b[o + 1] ELSE oob
\* memcpy (b + o, bytes, Len(bytes)), the part that lands inside the buffer
Write(b, o, bytes) ==
  [i \in 1 .. Len(b) |->
     IF i > o /\ i <= o + Len(bytes) THEN bytes[i - o] ELSE b[i]]

\* ntohl / ntohs / a single byte: the n-byte big-endian number at offset o
RECURSIVE NetworkOrder(_, _, _, _)
NetworkOrder(b, o, n, oob) ==
  IF n = 0 THEN 0
  ELSE NetworkOrder(b, o, n - 1, oob) * 256 + ByteAt(b, o + n - 1, oob)

\* Decode: offset += start_code_len + len, leaving the prefix out
Advance_short(offset, n, len) == offset + len + 1
Advance(offset, n, len) == offset + n + len

\* Decode: the loop replacing each NAL length with the start code, from
\* offset on
RECURSIVE DecodeReframe(_, _, _, _)
DecodeReframe(b, offset, n, oob) ==
  IF offset >= Len(b) THEN b
  ELSE LET len == NetworkOrder(b, offset, n, oob) IN
       IF len = 1 THEN b
       ELSE IF offset + len + 4 > Len(b) THEN b
       ELSE DecodeReframe(Write(b, offset, SubSeq(StartCode, 5 - n, 4)),
                          Advance(offset, n, len), n, oob)

\* UnalignedWrite32: least significant byte first (\div and % round down,
\* which gives the bytes of val as an unsigned 32-bit number)
UnalignedWrite32(b, dest, val) ==
  Write(b, dest, <<val % 256, (val \div 256) % 256,
                   (val \div 65536) % 256, (val \div 16777216) % 256>>)

\* ConvertNalUnits: the while loop.  nalStart is -1 for NULL; over tells
\* that UnalignedWrite32 wrote past the end of the buffer.
RECURSIVE ConvertLoop(_, _, _, _, _, _)
ConvertLoop(b, p, nalStart, n, oob, over) ==
  IF p >= Len(b) THEN [buf |-> b, nalStart |-> nalStart, over |-> over]
  ELSE IF \A i \in 0 .. n - 1 : ByteAt(b, p + i, oob) = StartCode[5 - n + i]
  THEN LET b1 == IF nalStart >= 0
                 THEN UnalignedWrite32(b, nalStart, p - nalStart - n)
                 ELSE b
           over1 == over \/ (nalStart >= 0 /\ nalStart + 4 > Len(b))
       IN  \* (p[0] & 0x1f) <= 5: a VCL unit ends the scan
           IF ByteAt(b1, p + n, oob) % 32 <= 5
           THEN [buf |-> b1, nalStart |-> p, over |-> over1]
           ELSE ConvertLoop(b1, p + n + 1, p, n, oob, over1)
  ELSE ConvertLoop(b, p + 1, nalStart, n, oob, over)

\* ConvertNalUnits: the loop, then "Convert the last NALU"
ConvertNalUnits(b, n, oob) ==
  LET r == ConvertLoop(b, 0, -1, n, oob, FALSE) IN
  IF r.nalStart < 0 THEN [buf |-> r.buf, over |-> r.over]
  ELSE [buf |-> UnalignedWrite32(r.buf, r.nalStart,
                                 Len(b) - r.nalStart - n),
        over |-> r.over \/ r.nalStart + 4 > Len(b)]

\* how far the two loops reach: the offset just past the last byte they read
\* or write (0 when they touch nothing).  Inside the buffer means <= Len(b).
Max(x, y) == IF x >= y THEN x ELSE y
\* Decode: the length is read from, and the start code written to, offset
\* .. offset + start_code_len - 1
RECURSIVE DecodeReach(_, _, _, _)
DecodeReach(b, offset, n, oob) ==
  IF offset >= Len(b) THEN 0
  ELSE LET len == NetworkOrder(b, offset, n, oob) IN
       IF len = 1 THEN offset + n
       ELSE IF offset + len + 4 > Len(b) THEN offset + n
       ELSE Max(offset + n,
                DecodeReach(Write(b, offset, SubSeq(StartCode, 5 - n, 4)),
                            Advance(offset, n, len), n, oob))
\* ConvertNalUnits: memcmp reads p .. p + nalStartSize - 1, the NAL type is
\* read at p + nalStartSize, UnalignedWrite32 writes 4 bytes at the start of
\* the unit before (in the loop) and of the last unit (after it)
RECURSIVE ConvertReach(_, _, _, _, _)
ConvertReach(b, p, nalStart, n, oob) ==
  LET wr == IF nalStart >= 0 THEN nalStart + 4 ELSE 0 IN
  IF p >= Len(b) THEN wr
  ELSE IF \A i \in 0 .. n - 1 : ByteAt(b, p + i, oob) = StartCode[5 - n + i]
  THEN LET b1 == IF nalStart >= 0
                 THEN UnalignedWrite32(b, nalStart, p - nalStart - n)
                 ELSE b
       IN  IF ByteAt(b1, p + n, oob) % 32 <= 5
           THEN Max(p + n + 1, Max(wr, p + 4))
           ELSE Max(p + n + 1,
                    Max(wr, ConvertReach(b1, p + n + 1, p, n, oob)))
  ELSE Max(p + n, ConvertReach(b, p + 1, nalStart, n, oob))

\* a frame as the host hands it to Decode: every NAL unit preceded by its
\* length, 4 bytes in network byte order
BigEndian32(v) == <<(v \div 16777216) % 256, (v \div 65536) % 256,
                    (v \div 256) % 256, v % 256>>
RECURSIVE Frame(_)
Frame(units) ==
  IF units = <<>> THEN <<>>
  ELSE BigEndian32(Len(Head(units))) \o Head(units) \o Frame(Tail(units))
\* the offset of the length prefix of the k-th NAL unit
RECURSIVE PrefixOffset(_, _)
PrefixOffset(units, k) ==
  IF k = 1 THEN 0
  ELSE PrefixOffset(units, k - 1) + Length32 + Len(units[k - 1])

\* the same for a frame of type GMP_BufferLength8, 16 or 32: prefixes of n
\* bytes in network byte order
LengthSizes == {1, 2, Length32}
RECURSIVE BigEndian(_, _)
BigEndian(v, n) ==
  IF n = 0 THEN <<>> ELSE Append(BigEndian(v \div 256, n - 1), v % 256)
RECURSIVE FrameOf(_, _)
FrameOf(units, n) ==
  IF units = <<>> THEN <<>>
  ELSE BigEndian(Len(Head(units)), n) \o Head(units)
       \o FrameOf(Tail(units), n)
RECURSIVE PrefixOffsetOf(_, _, _)
PrefixOffsetOf(units, k, n) ==
  IF k = 1 THEN 0
  ELSE PrefixOffsetOf(units, k - 1, n) + n + Len(units[k - 1])

RECURSIVE Payloads(_)
Payloads(n) ==
  IF n = 0 THEN {<<>>}
  ELSE Payloads(n - 1) \cup
       {Append(u, x) : u \in Payloads(n - 1), x \in PayloadBytes}
RECURSIVE NalLists(_)
NalLists(k) ==
  IF k = 1 THEN {<<u>> : u \in Payloads(MaxNalLen)}
  ELSE NalLists(k - 1) \cup
       {Append(l, u) : l \in NalLists(k - 1), u \in Payloads(MaxNalLen)}

ReframeInit ==
  /\ NewSession
  /\ api = "none" /\ m_stopping = FALSE /\ m_color_format = NoFormat
  /\ lenSize \in LengthSizes
  /\ nals \in NalLists(MaxNals)
  /\ buf = FrameOf(nals, lenSize)
  /\ stage = "input"
  /\ md = <<>> /\ converter = <<>>

\* Decode, lines 152-210, on a video/avc frame of type GMP_BufferLength8,
\* 16 or 32
Decode_reframe(oob) ==
  /\ stage = "input"
  /\ buf' = DecodeReframe(buf, 0, lenSize, oob)
  /\ obs' = [obs EXCEPT
               !.outside = @ \/ DecodeReach(buf, 0, lenSize, oob) > Len(buf)]
  /\ stage' = "reframed"
  /\ UNCHANGED <<m_callback, m_host, m_codec, m_submit_thread, m_conv,
                 m_dropConverter, m_draining, m_resetting, m_processing,
                 m_dur, m_codec_lock, m_drain_lock, pcM, pcW, pcH, mainQ,
                 workerQ, wFrame, hFrame, cfg, codecs, nThreads, crashed,
                 m_stopping, m_color_format, api, nals, md, converter,
                 lenSize>>

\* FrameAvailable: ConvertNalUnits (frame->Buffer(), size, GMP_BufferLength32)
\* on what Decode made of the frame
FrameAvailable_convert(oob) ==
  /\ stage = "reframed" /\ lenSize = Length32
  /\ obs' = [obs EXCEPT
               !.outside = @ \/ ConvertReach(buf, 0, -1, Length32, oob)
                                  > Len(buf)]
  /\ LET r == ConvertNalUnits(buf, Length32, oob) IN
       /\ buf' = r.buf
       /\ stage' = IF r.over THEN "overflow" ELSE "converted"
  /\ UNCHANGED <<m_callback, m_host, m_codec, m_submit_thread, m_conv,
                 m_dropConverter, m_draining, m_resetting, m_processing,
                 m_dur, m_codec_lock, m_drain_lock, pcM, pcW, pcH, mainQ,
                 workerQ, wFrame, hFrame, cfg, codecs, nThreads, crashed,
                 m_stopping, m_color_format, api, nals, md, converter,
                 lenSize>>

ReframeNext ==
  \/ \E oob \in PayloadBytes : Decode_reframe(oob)
  \/ \E oob \in PayloadBytes : FrameAvailable_convert(oob)

ReframeSpec == ReframeInit /\ [][ReframeNext]_vars

\* ====================================================== colour converters
\* DroidColourConvert::GetConverter and the SetFormat of the four converter
\* classes (gmp-droid-conv.cpp, gmp-droid-conv.h)
PackedSemiPlanar32m == "QOMX_COLOR_FormatYUV420PackedSemiPlanar32m"
\* the values the codec reports: md->width (the stride), md->height (the
\* slice height) and the crop rectangle
Strides == {0, 1, 127, 128, 129, 720, 768}
SliceHeights == {0, 31, 32, 33, 480}
Crops == {0, 1, 2, 3}
Rights == {16, 720}
Bottoms == {16, 480}

\* x & ~(to - 1), to a power of two: the bits below to are cleared
ClearLow(x, to) == x - (x % to)
\* #define ALIGN_SIZE(size, to) (((size) + to  - 1) & ~(to - 1)), without
\* the "+ to - 1"
ALIGN_SIZE_down(size, to) == ClearLow(size, to)
ALIGN_SIZE(size, to) == ClearLow(size + to - 1, to)

\* the object before SetFormat: the member initialisers of DroidColourConvert
NewConverter(name) ==
  [name |-> name, m_stride |-> 0, m_slice_height |-> 0, m_width |-> 0,
   m_height |-> 0, m_top |-> 0, m_left |-> 0, set |-> FALSE]
\* DroidColourConvert::SetFormat (rect, width, height)
SetFormat(c, rect, width, height) ==
  [c EXCEPT !.m_stride = width, !.m_slice_height = height,
            !.m_top = rect.top, !.m_left = rect.left,
            !.m_width = rect.right - rect.left,
            !.m_height = rect.bottom - rect.top,
            !.set = TRUE]
\* the SetFormat of the class named c.name
SetFormatOf(c, rect, width, height) ==
  LET b == SetFormat(c, rect, width, height) IN
  IF c.name = "ConvertYUV420PackedSemiPlanar32m"
  THEN [b EXCEPT !.m_stride = ALIGN_SIZE(b.m_stride, 128),
                 !.m_slice_height = ALIGN_SIZE(b.m_slice_height, 32),
                 !.m_top = ALIGN_SIZE(b.m_top, 2),
                 !.m_left = ALIGN_SIZE(b.m_left, 2)]
  ELSE IF c.name = "ConvertYUV420Planar"
  THEN [b EXCEPT !.m_stride = ALIGN_SIZE(width, 4)]
  ELSE IF c.name = "ConvertYUV420SemiPlanar"
  THEN [b EXCEPT !.m_stride = ALIGN_SIZE(b.m_stride, 16)]
  ELSE b   \* ConvertNative: the crop rectangle goes to droidmedia as it is

\* GetConverter with the first test only
ClassFor_first(hal_format) ==
  IF hal_format = PackedSemiPlanar32m THEN "ConvertYUV420PackedSemiPlanar32m"
  ELSE "None"
\* the class GetConverter makes for hal_format when droid_media_convert_create
\* gives nothing; "None" is the nullptr it returns for an unknown layout
ClassFor(hal_format) ==
  IF hal_format = PackedSemiPlanar32m THEN "ConvertYUV420PackedSemiPlanar32m"
  ELSE IF hal_format = Planar THEN "ConvertYUV420Planar"
  ELSE IF hal_format = SemiPlanar THEN "ConvertYUV420SemiPlanar"
  ELSE "None"

ConvInit ==
  /\ NewSession
  /\ api = "none" /\ m_stopping = FALSE /\ m_color_format = NoFormat
  /\ nals = <<>> /\ buf = <<>> /\ stage = "session" /\ lenSize = 0
  /\ md \in [width : Strides, height : SliceHeights,
             hal_format : {PackedSemiPlanar32m, Planar, SemiPlanar,
                           OtherFormat},
             rect : [top : Crops, left : Crops,
                     right : Rights, bottom : Bottoms]]
  /\ converter = NewConverter("None")

\* GetConverter: native tells whether droid_media_convert_create gave a
\* converter
GetConverter(native) ==
  /\ api = "none" /\ md # <<>> /\ converter.name = "None" /\ ~converter.set
  /\ obs' = [obs EXCEPT !.droidConvert = native]
  /\ LET name == IF native THEN "ConvertNative" ELSE ClassFor(md.hal_format)
     IN converter' =
          IF name = "None" THEN [NewConverter("None") EXCEPT !.set = TRUE]
          ELSE SetFormatOf(NewConverter(name), md.rect, md.width, md.height)
  /\ UNCHANGED <<m_callback, m_host, m_codec, m_submit_thread, m_conv,
                 m_dropConverter, m_draining, m_resetting, m_processing,
                 m_dur, m_codec_lock, m_drain_lock, pcM, pcW, pcH, mainQ,
                 workerQ, wFrame, hFrame, cfg, codecs, nThreads, crashed,
                 m_stopping, m_color_format, api, nals, buf, stage, md,
                 lenSize>>

ConvNext == \E native \in BOOLEAN : GetConverter(native)

ConvSpec == ConvInit /\ [][ConvNext]_vars

\* ------------------------------------------------------------ properties
NoHostCall ==
  obs.nDecodeCalls = 0 /\ obs.nResetCalls = 0 /\ obs.nDrainCalls = 0

\* frames handed to Decode that are on their way: posted to the submit
\* thread, held by it, queued in the codec, or being delivered
InFlight ==
  Len(workerQ)
  + Bit(pcW \in {"cc_create", "cc_start", "w_chkreset", "w_queue"})
  + (IF m_codec # 0 /\ codecs[m_codec].st \in {"created", "started"}
     THEN BagSize(codecs[m_codec].q, TS) ELSE 0)
  + Bit(pcH \in {"pf_post", "pf_wait"})

InDelivery == pcH \in {"pf_post", "pf_wait", "pf_ret"}
InReset == pcM \in {"rc_join", "rc_stop", "rm_finish"}

\* C1: after InitDecode with a supported codec, DecodingComplete with no
\* Decode, Drain or Reset in between opens no codec handle and invokes no
\* host callback, however long the session lives on.
C1_ConfigureShutdownSilent ==
  (cfg = "ok" /\ obs.shutdown /\ NoHostCall)
     => (~obs.anyCb /\ NextHandle = 1 /\ m_codec = 0)

C1_Witness ==
  /\ cfg = "ok" /\ obs.shutdown /\ NoHostCall
  /\ pcM = "idle" /\ mainQ = <<>> /\ ~m_resetting

\* C2: no Decoded callback reaches the host after DecodingComplete.
C2_NoDecodedAfterShutdown == "Decoded" \notin obs.lateCb

\* DecodingComplete came between ProcessFrame's check and ProcessFrame_m,
\* and ProcessFrame_m has run
C2_Witness == obs.shutdown /\ obs.pfmReleased /\ obs.nDecoded = 0

\* C3: after DecodingComplete no Error, InputDataExhausted, DrainComplete or
\* ResetComplete callback reaches the host.
C3_NoCallbackAfterShutdown ==
  obs.lateCb \cap {"Error", "InputDataExhausted", "DrainComplete",
                   "ResetComplete"} = {}

\* C4: on a session that is not shut down every Reset that found no reset
\* in progress is answered by exactly one ResetComplete by the time
\* m_resetting is false again, and a Reset made while m_resetting is set
\* adds none.
C4_ResetIdempotent ==
  ~obs.shutdown => obs.nResetComplete + Bit(m_resetting) = obs.nEffResets

\* two Resets in a row, the first one during a delivery, one ResetComplete
C4_Witness ==
  /\ ~obs.shutdown /\ obs.nResetCalls = 2 /\ obs.nEffResets = 1
  /\ obs.resetDeferred /\ obs.nResetComplete = 1 /\ ~m_resetting

\* C5: on a session that is not shut down, while a frame is being delivered
\* (m_processing) the codec handle is alive and started, the main thread is
\* not in Reset_m, and no Reset_m has ever started during a delivery.
C5_ResetDeferredDuringDelivery ==
  ~obs.shutdown =>
     /\ ~obs.resetInDelivery
     /\ m_processing =>
          /\ ~InReset
          /\ m_codec # 0 /\ codecs[m_codec].st = "started"

\* a Reset called during a delivery has completed
C5_Witness ==
  ~obs.shutdown /\ obs.resetDeferred /\ obs.nResetComplete = 1
  /\ m_codec = 0 /\ ~m_processing

\* C6: DecodingComplete does not race with a delivery: Reset_m never starts
\* while m_processing is set, and ProcessFrame_m never runs with m_callback
\* or m_host released.
C6_ShutdownWaitsForDelivery ==
  ~obs.resetInDelivery /\ ~obs.pfmReleased

\* C7 as stated: whenever no DataAvailable callback is in progress, the
\* Decoded callbacks and the frames discarded by ProcessFrame add up to the
\* DataAvailable callbacks.
C7_DecodedPlusDiscarded ==
  ~InDelivery => obs.nDecoded + obs.nDiscarded = obs.nDataAvail

\* C7 amended: ... the Decoded callbacks, the frames discarded by
\* ProcessFrame and the frames ProcessFrame_m gave up on (no converter,
\* CreateFrame or Convert failed) add up to the DataAvailable callbacks.
C7_DecodedDiscardedFailed ==
  ~InDelivery =>
     obs.nDecoded + obs.nDiscarded + obs.nFailed = obs.nDataAvail

C7_Witness ==
  ~InDelivery /\ obs.nDecoded = 1 /\ obs.nFailed = 1 /\ obs.nDataAvail = 2

\* C8: as long as no timestamp is given to Decode twice, a frame given to
\* Decoded carries the duration Decode was given for its timestamp, and
\* once as many frames are decoded as were cached the cache is empty.
Cached == {t \in TS : obs.subDur[t] # 0}
C8_DurationRoundTrip ==
  ~obs.dupTs =>
     /\ obs.nDecoded > 0 =>
          /\ obs.lastDecoded[1] \in Cached
          /\ obs.lastDecoded[2] = obs.subDur[obs.lastDecoded[1]]
     /\ obs.nDecoded = Cardinality(Cached) => DOMAIN m_dur = {}

C8_Witness ==
  /\ ~obs.dupTs /\ obs.nDecoded = 2 /\ Cached = {1, 2}
  /\ obs.subDur[1] # obs.subDur[2] /\ DOMAIN m_dur = {}

\* C9: the duration cache holds as many entries as frames are in flight.
C9_CacheSizeIsInFlight == MapSize(m_dur) = InFlight

\* C10 as stated: Drain completes at once, without entering the draining
\* state, when there is no codec or the cache is empty, and enters draining
\* otherwise; any other DrainComplete comes with the cache empty.
DrainDecides ==
  (pcM = "drain_lock" /\ pcM' = "idle") =>
     IF m_codec = 0 \/ MapSize(m_dur) = 0
     THEN obs'.nDrainComplete = obs.nDrainComplete + 1 /\ ~m_draining'
     ELSE obs'.nDrainComplete = obs.nDrainComplete /\ m_draining'
LaterDrainComplete ==
  pcM # "drain_lock" /\ obs'.nDrainComplete > obs.nDrainComplete
C10_DrainCompleteOnlyWhenEmpty ==
  [][DrainDecides /\ (LaterDrainComplete => MapSize(m_dur') = 0)]_vars

\* C10 amended: ... any other DrainComplete comes with the cache emptied by
\* the frame just delivered, or is the one EOS posted on the codec's end of
\* stream (only EOS posts a DrainComplete task).
C10_DrainCompleteEmptyOrEos ==
  [][DrainDecides /\
     (LaterDrainComplete =>
        \/ Head(mainQ).t = "PF_m" /\ MapSize(m_dur') = 0
        \/ Head(mainQ).t = "cbDrainComplete")]_vars

\* a drain that had to wait was completed by a frame delivery
C10_Witness ==
  "delivery" \in obs.dcVia /\ DOMAIN m_dur = {} /\ ~m_draining


\* ---------------------------------------------------------------- progress
\* every step a thread takes on its own: what fair scheduling of the main
\* thread, the submit thread and the codec thread obliges to happen.  The
\* host's calls and the hardware's spontaneous events (error, size change)
\* are not obliged.
MainStep ==
  \/ Drain_locked
  \/ \E found \in BOOLEAN, ok \in BOOLEAN : ProcessFrame_m(found, ok)
  \/ Reset_m
  \/ ResetCodec_join
  \/ ResetCodec_stop
  \/ Reset_m_finish
  \/ \E name \in {"cbError", "cbIDE", "cbDrainComplete"} : CallbackTask(name)
  \/ Error_m
SubmitStep ==
  \/ SubmitBufferThread
  \/ \E created \in BOOLEAN : CreateCodec_create(created)
  \/ \E started \in BOOLEAN : CreateCodec_start(started)
  \/ CreateCodec_fail
  \/ SubmitBuffer_checkReset
  \/ SubmitBuffer_queue
  \/ SubmitBuffer_post
CodecStep ==
  \/ \E h \in DOMAIN codecs, ts \in TS : ProcessFrame(h, ts)
  \/ ProcessFrame_sync
  \/ ProcessFrame_return
  \/ \E h \in DOMAIN codecs : EOS(h)
  \/ EOS_clear
\* no thread can take a step: the session stays as it is until the host calls
AtRest == ~ENABLED (MainStep \/ SubmitStep \/ CodecStep)
NoFailure == obs.nFaults = 0 /\ obs.nCreateFail = 0

\* C11: when the session has come to rest (no thread can take a step), every
\* Drain made on it has been answered by a DrainComplete -- on a session
\* that was not shut down, not reset and met no failure.
C11_DrainAnswered ==
  (AtRest /\ ~obs.shutdown /\ obs.nResetCalls = 0 /\ NoFailure)
     => obs.nDrainComplete >= obs.nDrainCalls


\* C12: when the session has come to rest, every Reset made on a session
\* that is not shut down has been answered: m_resetting is false again and
\* each Reset that found no reset in progress got its ResetComplete.
C12_ResetAnswered ==
  (AtRest /\ ~obs.shutdown /\ ~crashed)
     => (~m_resetting /\ obs.nResetComplete = obs.nEffResets)


\* C13: the step that delivers ResetComplete leaves the session with no
\* codec handle, no submit thread and nothing posted to one, an empty
\* duration cache and the converter, if there is one, marked for recreation.
ResetCompleteStep == obs'.nResetComplete > obs.nResetComplete
C13_ResetCompleteLeavesClean ==
  [][ResetCompleteStep =>
       /\ m_codec' = 0
       /\ m_submit_thread' = 0 /\ workerQ' = <<>> /\ pcW' = "idle"
       /\ MapSize(m_dur') = 0
       /\ m_dropConverter' \/ ~m_conv']_vars


\* C14: once InitDecode has found the codec unsupported, the session is
\* over: no codec creation is attempted (the submit thread never enters
\* CreateCodec) and no codec handle is opened.
C14_UnsupportedIsTerminal ==
  cfg = "unsupported" =>
     (pcW \notin {"cc_create", "cc_start"} /\ NextHandle = 1)


\* ---- C15
\* a step in which a host callback (Decoded, Encoded, Error,
\* InputDataExhausted, DrainComplete, ResetComplete) is invoked
CallbackStep == obs'.nCb > obs.nCb
\* a step the submit thread or the codec thread takes itself; the only
\* change another thread makes to pcH is the main thread ending the wait of
\* syncrunonmainthread
OffMainStep == pcW' # pcW \/ (pcH' # pcH /\ pcH # "pf_wait")
\* C15: every invocation of a host callback, in a decode or an encode
\* session, is a step of the main thread; neither the submit thread nor the
\* codec thread invokes one
C15_CallbacksOnMainThread ==
  [][CallbackStep => ~OffMainStep]_vars
C15_Witness ==
  /\ api = "decode-video" /\ obs.nDecoded > 0 /\ obs.nCb >= 2
  /\ pcW = "idle" /\ pcH = "idle"

\* ---- C16
\* C16: in an encode session a DataAvailable that arrives while the teardown
\* of EncodingComplete is in progress is dropped, and no Encoded callback
\* is delivered after the host has called EncodingComplete
C16_NoEncodedAfterComplete ==
  api = "encode-video" =>
    (~obs.stoppingAccepted /\ "Encoded" \notin obs.lateCb)

\* ---- C17
\* the k-th length prefix of the frame as it was, and as it is
PrefixOf(b, k) ==
  SubSeq(b, PrefixOffset(nals, k) + 1, PrefixOffset(nals, k) + Length32)
PayloadOf(b, k) ==
  SubSeq(b, PrefixOffset(nals, k) + Length32 + 1,
            PrefixOffset(nals, k) + Length32 + Len(nals[k]))
\* C17: Decode's reframing of a frame of NAL units with 4-byte big-endian
\* length prefixes that add up to the buffer size leaves the length of the
\* buffer and every payload byte as they were, and every prefix it rewrote
\* is the start code 00 00 00 01
C17_DecodeReframingKeepsPayload ==
  (stage = "reframed" /\ lenSize = Length32) =>
    /\ Len(buf) = Len(Frame(nals))
    /\ \A k \in 1 .. Len(nals) :
         /\ PayloadOf(buf, k) = nals[k]
         /\ PrefixOf(buf, k) \in {StartCode, PrefixOf(Frame(nals), k)}
C17_Witness ==
  /\ stage = "reframed" /\ lenSize = Length32 /\ Len(nals) = 2
  /\ Len(nals[1]) = 3 /\ Len(nals[2]) = 2
  /\ PrefixOf(buf, 1) = StartCode /\ PrefixOf(buf, 2) = StartCode
  /\ buf # Frame(nals)

\* ---- C18
\* C18: ConvertNalUnits with 4-byte prefixes undoes Decode's reframing: run
\* on what Decode made of a frame of 4-byte length-prefixed NAL units it
\* puts back, byte for byte, the length fields the frame had
C18_ConvertInvertsReframe ==
  stage \in {"converted", "overflow"} =>
    \A k \in 1 .. Len(nals) : PrefixOf(buf, k) = PrefixOf(Frame(nals), k)

\* ---- C19
\* the places of the Planar and SemiPlanar entries in the codec's list
Usable == {i \in 1 .. Len(obs.formats) :
             obs.formats[i] \in {Planar, SemiPlanar}}
FirstUsable == CHOOSE i \in Usable : \A j \in Usable : i <= j
ErrorReported ==
  \/ \E i \in 1 .. Len(mainQ) : mainQ[i].t = "cbError"
  \/ obs.nCb > 0
\* C19: once InitEncode has asked the codec for its colour formats, the
\* input format of the session is the first entry of the list that is Planar
\* or SemiPlanar; if the list has neither, InitEncode has given
\* GMPNotImplementedErr to Error and the format is still -1
C19_FirstUsableFormat ==
  (api = "encode-video" /\ cfg \in {"ok", "noformat"}) =>
    IF Usable = {}
    THEN /\ cfg = "noformat" /\ m_color_format = NoFormat
         /\ obs.initErr = "GMPNotImplementedErr" /\ ErrorReported
    ELSE /\ cfg = "ok" /\ m_color_format = obs.formats[FirstUsable]
         /\ obs.initErr = "none"
C19_Witness ==
  /\ api = "encode-video" /\ cfg = "ok"
  /\ obs.formats = <<OtherFormat, SemiPlanar, Planar>>
  /\ m_color_format = SemiPlanar
  /\ m_codec # 0

\* ---- C20
\* C20: once a decoded frame has found no converter for the layout the codec
\* reports, the session is over: Error is told, that frame is not given to
\* Decoded, and no later frame of the session is
C20_ConverterFailureIsFatal ==
  (api = "decode-video" /\ obs.convFailAt >= 0) =>
     obs.nDecoded = obs.convFailAt

\* ---- C21
\* n is the smallest multiple of to that is not below x
RoundedUp(n, x, to) == n % to = 0 /\ n >= x /\ n - to < x
\* C21: the SetFormat of the PackedSemiPlanar32m converter rounds the stride
\* the codec reports up to a multiple of 128, the slice height up to a
\* multiple of 32 and the top and left of the crop rectangle up to a
\* multiple of 2; a stride of 720 becomes 768 and a slice height of 480
\* stays 480
C21_PackedSemiPlanar32mAlignment ==
  (md # <<>> /\ converter.name = "ConvertYUV420PackedSemiPlanar32m") =>
    /\ RoundedUp(converter.m_stride, md.width, 128)
    /\ RoundedUp(converter.m_slice_height, md.height, 32)
    /\ RoundedUp(converter.m_top, md.rect.top, 2)
    /\ RoundedUp(converter.m_left, md.rect.left, 2)
    /\ md.width = 720 => converter.m_stride = 768
    /\ md.height = 480 => converter.m_slice_height = 480
C21_Witness ==
  /\ md # <<>> /\ converter.name = "ConvertYUV420PackedSemiPlanar32m"
  /\ md.width = 720 /\ md.height = 480 /\ md.rect.top = 1
  /\ converter.m_stride = 768 /\ converter.m_slice_height = 480
  /\ converter.m_top = 2

\* ---- C22
\* the codec thread enters ProcessFrame with a frame
FrameArrives == obs'.nDataAvail > obs.nDataAvail
\* C22: a frame the codec hands over while m_resetting is set is discarded:
\* nothing is posted to the main thread for it (no Decoded, no Error),
\* m_processing stays down and the codec thread is back at once
C22_FrameDuringResetDiscarded ==
  [][(api = "decode-video" /\ m_resetting /\ FrameArrives) =>
       /\ obs'.nDiscarded = obs.nDiscarded + 1
       /\ mainQ' = mainQ
       /\ ~m_processing'
       /\ pcH' = "idle"
       /\ obs'.nDecoded = obs.nDecoded /\ obs'.nCb = obs.nCb]_vars
C22_Witness ==
  /\ api = "decode-video" /\ m_resetting /\ obs.nDiscarded > 0
  /\ ~obs.shutdown /\ m_callback /\ m_host

\* ---- C23
\* ProcessFrame_m gives a frame to Decoded and that leaves the duration
\* cache empty while a drain is pending
DeliveryDrains ==
  /\ obs'.nDecoded > obs.nDecoded
  /\ m_draining /\ MapSize(m_dur') = 0
\* C23: when the delivery of a frame empties the duration cache of a
\* draining session, DrainComplete is called after the Decoded of that
\* frame, never before it, and m_draining is cleared
C23_DrainCompleteAfterDecoded ==
  [][(api = "decode-video" /\ DeliveryDrains) =>
       /\ obs'.nDrainComplete = obs.nDrainComplete + 1
       /\ <<"Decoded", "DrainComplete">> \in obs'.pfmOrders
       /\ <<"DrainComplete", "Decoded">> \notin obs'.pfmOrders
       /\ ~m_draining']_vars
C23_Witness ==
  /\ api = "decode-video" /\ "delivery" \in obs.dcVia
  /\ <<"Decoded", "DrainComplete">> \in obs.pfmOrders
  /\ ~m_draining /\ MapSize(m_dur) = 0 /\ obs.nDecoded > 0

\* ---- C24
\* the submit thread comes back from droid_media_codec_queue and finishes
\* SubmitBufferThread
AfterEnqueue == pcW = "w_post" /\ pcW' = "idle"
\* the submit thread takes a SubmitBufferThread task while m_draining is set
TakenWhileDraining ==
  /\ pcW = "idle" /\ m_draining /\ Len(workerQ') < Len(workerQ)
  /\ m_submit_thread' = m_submit_thread /\ pcM' = pcM
IdePosted == mainQ' = Append(mainQ, Task("cbIDE", 1))
\* a frame taken while draining is not queued and posts nothing
DroppedWhileDraining ==
  pcW' = "idle" /\ codecs' = codecs /\ mainQ' = mainQ
\* C24: once the submit thread has queued a frame to the codec,
\* InputDataExhausted is posted if and only if the session is not draining
\* at that moment; a frame the submit thread takes while the session is
\* draining is not queued and posts no InputDataExhausted
C24_IdeIffNotDraining ==
  [][(api = "decode-video") =>
       /\ AfterEnqueue => (IdePosted <=> ~m_draining)
       /\ TakenWhileDraining => DroppedWhileDraining]_vars
\* C24 as the code has it: InputDataExhausted is posted if and only if the
\* session is not draining and m_callback is still set
C24_IdeIffNotDrainingAndCallback ==
  [][(api = "decode-video") =>
       /\ AfterEnqueue => (IdePosted <=> (~m_draining /\ m_callback))
       /\ AfterEnqueue => (~IdePosted => mainQ' = mainQ)
       /\ TakenWhileDraining => DroppedWhileDraining]_vars
C24_Witness ==
  /\ api = "decode-video" /\ pcW = "idle" /\ ~m_draining /\ m_callback
  /\ m_codec # 0 /\ BagSize(codecs[m_codec].q, TS) > 0
  /\ \E i \in 1 .. Len(mainQ) : mainQ[i].t = "cbIDE"

\* ---- C25
\* the codec handles that are open
Live == {h \in DOMAIN codecs : codecs[h].st \in {"created", "started", "eos"}}
\* a reset or the shutdown has run to its end, and Decode has posted nothing
\* to the submit thread since
AfterReset ==
  /\ AtRest /\ ~crashed /\ ~m_resetting
  /\ obs.nResetComplete > 0 \/ obs.shutdown
  /\ ~obs.postedSinceReset
\* C25: the codec handle of a decode session is made lazily: there is none
\* before the first Decode, a reset or the shutdown destroys it and only a
\* Decode after the reset makes a new one, and there are never two
C25_LazySingleHandle ==
  api = "decode-video" =>
    /\ obs.nDecodeCalls = 0 => (NextHandle = 1 /\ m_codec = 0)
    /\ Cardinality(Live) <= 1
    /\ m_codec # 0 => Live = {m_codec}
    /\ AfterReset => (Live = {} /\ m_codec = 0)

\* ---- C26
\* createthread gives the session a new submit thread
ThreadCreated == nThreads' > nThreads
\* droid_media_codec_queue puts a frame into the input queue of a codec
FrameQueued ==
  \E h \in DOMAIN codecs :
     BagSize(codecs'[h].q, TS) > BagSize(codecs[h].q, TS)
\* C26: a decode session has at most one submit thread at a time, made by
\* the first Decode: a new one is made only when there is none (the one
\* before has been joined and has nothing left to run); and every
\* droid_media_codec_queue is a step of the submit thread in which the main
\* thread, where Decode was called, does not move
C26_OneSubmitThread ==
  [][(api = "decode-video") =>
       /\ ThreadCreated =>
            /\ m_submit_thread = 0 /\ pcW = "idle" /\ workerQ = <<>>
            /\ obs'.nDecodeCalls > obs.nDecodeCalls
            /\ nThreads' = nThreads + 1 /\ m_submit_thread' = nThreads'
       /\ FrameQueued =>
            /\ pcW = "w_queue" /\ pcW' = "w_post"
            /\ m_submit_thread # 0
            /\ pcM' = pcM /\ mainQ' = mainQ]_vars
C26_Witness ==
  /\ api = "decode-video" /\ nThreads = 2 /\ m_submit_thread = 2
  /\ m_codec # 0 /\ BagSize(codecs[m_codec].q, TS) > 0

\* ---- C27
\* the thread of that kind ("main", "submit", "codec") holds a session lock
HoldsLock(kind) ==
  m_codec_lock.owner[1] = kind \/ m_drain_lock.owner[1] = kind
\* C27: a thread that is in, or about to make, a blocking hardware call
\* (codec create, start, queue, stop, destroy) or a synchronous dispatch to
\* the main thread holds no session lock
C27_NoLockAcrossBlockingCall ==
  /\ pcW \in {"cc_create", "cc_start", "w_queue"} => ~HoldsLock("submit")
  /\ pcM \in {"rc_stop", "ec_stop"} => ~HoldsLock("main")
  /\ pcH \in {"pf_post", "pf_wait"} => ~HoldsLock("codec")

\* ---- C28
\* the thread that changes m_dur in this step: the codec thread in EOS, the
\* main thread in Decode, ProcessFrame_m and ResetCodec
DurMutator == IF pcH = "eos_clear" /\ pcH' = "idle" THEN "codec" ELSE "main"
\* C28: every change of the duration cache (the insert of Decode, the erase
\* of ProcessFrame_m, the clear of EOS and of a reset) is made by a thread
\* that holds the drain lock
C28_CacheMutatedUnderDrainLock ==
  [][(api = "decode-video" /\ m_dur' # m_dur) =>
       m_drain_lock.owner[1] = DurMutator]_vars

\* ---- C29
\* the k-th length prefix of a frame with prefixes of lenSize bytes
PrefixAt(b, k) ==
  SubSeq(b, PrefixOffsetOf(nals, k, lenSize) + 1,
            PrefixOffsetOf(nals, k, lenSize) + lenSize)
\* C29: for prefixes of 1, 2 or 4 bytes, Decode's reframing of a frame of
\* NAL units behind big-endian length prefixes that add up to the buffer
\* size, none of the lengths being 1, puts the start code in the place of
\* every length field, the last one included
C29_EveryPrefixReplaced ==
  (stage = "reframed" /\ \A k \in 1 .. Len(nals) : Len(nals[k]) # 1) =>
     \A k \in 1 .. Len(nals) :
        PrefixAt(buf, k) = SubSeq(StartCode, 5 - lenSize, 4)


\* ---- C30
\* the steps of the encoder's own threads: the main thread's tasks and the
\* codec thread inside DataAvailable
EncoderStep ==
  \/ EncodingComplete(TRUE)
  \/ \E dies \in BOOLEAN : EncodingComplete_stop(dies)
  \/ \E ok \in BOOLEAN : FrameAvailable(ok)
  \/ CallbackTask("cbError")
  \/ Encoder_Error_m
  \/ Encoder_DataAvailable_sync
  \/ Encoder_DataAvailable_return
\* neither thread of the encoder can take a step
EncoderAtRest == ~ENABLED EncoderStep
\* an encoded frame is being delivered: DataAvailable is between its two
\* locked sections
Delivering == api = "encode-video" /\ m_processing
\* C30: while an encoded frame is being delivered the codec is neither
\* stopped nor destroyed, EncodingComplete called by then or not; and when
\* EncodingComplete was called during a delivery and the encoder has come to
\* rest, the handle has been stopped and destroyed, by one call and no more.
C30_DeferredTeardown ==
  /\ Delivering =>
       /\ pcM # "ec_stop"
       /\ m_codec # 0 /\ codecs[m_codec].st = "started"
  /\ (obs.ecDeferred /\ EncoderAtRest /\ ~crashed) =>
       /\ m_codec = 0 /\ ~m_stopping
       /\ Live = {}
       /\ obs.nStops = 1
\* EncodingComplete came during a delivery, the delivery returned and the
\* posted teardown has destroyed the handle
C30_Witness ==
  /\ obs.ecDeferred /\ EncoderAtRest /\ ~crashed
  /\ obs.nStops = 1 /\ m_codec = 0
  /\ \E h \in DOMAIN codecs : codecs[h].st = "destroyed"


\* ---- C31
\* the codec thread enters EOS, and leaves it
EosBegins == pcH = "idle" /\ pcH' = "eos_clear"
EosEnds == pcH = "eos_clear" /\ pcH' = "idle"
\* C31: on the hardware's end of stream the decoder posts one DrainComplete
\* to the main thread (it does not call the host from the codec thread), and
\* when EOS returns the duration cache is empty.
C31_EosReportsAndClears ==
  [][/\ EosBegins =>
          /\ Len(mainQ') = Len(mainQ) + 1
          /\ mainQ'[Len(mainQ')].t = "cbDrainComplete"
          /\ obs'.nDrainComplete = obs.nDrainComplete
     /\ EosEnds => m_dur' = EmptyMap]_vars
\* EOS has returned with frames still in the cache when it came: the cache
\* is empty and the DrainComplete waits on the main thread
C31_Witness ==
  /\ api = "decode-video" /\ pcH = "idle" /\ m_dur = EmptyMap
  /\ \E h \in DOMAIN codecs : codecs[h].st = "eos"
  /\ \E i \in 1 .. Len(mainQ) : mainQ[i].t = "cbDrainComplete"
  /\ obs.nDecoded < obs.nDecodeCalls


\* ---- C32
\* the frame copies that wait for the submit thread or are in its hands
\* before droid_media_codec_queue
CopiesInFlight ==
  Len(workerQ)
  + (IF pcW \in {"cc_create", "cc_start", "cc_fail", "w_chkreset",
                 "w_queue"}
     THEN 1 ELSE 0)
\* C32: every frame copy Decode allocated is in flight, was handed to
\* droid_media_codec_queue with its release function, or was released by
\* the session: none is lost and none is counted twice.
C32_EveryCopyReleasedOnce ==
  (api = "decode-video" /\ ~crashed) =>
     obs.nMalloc = obs.nUnref + obs.nQueued + CopiesInFlight


\* ---- C33
\* C33: GetConverter gives ConvertNative whenever droid_media_convert_create
\* gave a converter, whatever md->hal_format is; without one it gives
\* ConvertYUV420PackedSemiPlanar32m, ConvertYUV420Planar or
\* ConvertYUV420SemiPlanar exactly when hal_format is the constant of that
\* name, and nothing for any other layout.
C33_ConverterSelection ==
  (api = "none" /\ converter # <<>> /\ converter.set) =>
     /\ obs.droidConvert => converter.name = "ConvertNative"
     /\ ~obs.droidConvert =>
          /\ converter.name = "ConvertYUV420PackedSemiPlanar32m"
               <=> md.hal_format = PackedSemiPlanar32m
          /\ converter.name = "ConvertYUV420Planar"
               <=> md.hal_format = Planar
          /\ converter.name = "ConvertYUV420SemiPlanar"
               <=> md.hal_format = SemiPlanar
          /\ converter.name = "None"
               <=> md.hal_format \notin
                     {PackedSemiPlanar32m, Planar, SemiPlanar}
\* GetConverter has given ConvertYUV420SemiPlanar, the last of the three it
\* tests for, to a frame of that layout
C33_Witness ==
  /\ api = "none" /\ converter # <<>> /\ converter.set
  /\ ~obs.droidConvert /\ md.hal_format = SemiPlanar
  /\ converter.name = "ConvertYUV420SemiPlanar"


\* ---- C34
\* C34: the host never gets more DrainComplete callbacks than it made Drain
\* calls: Drain itself, the delivery that empties the cache and the
\* hardware's end of stream together answer each Drain at most once.
C34_OneDrainCompletePerDrain ==
  api = "decode-video" => obs.nDrainComplete <= obs.nDrainCalls


\* ---- C35
\* the submit thread holds a frame that Decode took before a Reset whose
\* ResetComplete the host has got (and that no later Decode gave again)
StaleFrame ==
  /\ api = "decode-video" /\ pcW # "idle" /\ wFrame \in obs.preReset
  /\ obs.nEffResets > 0 /\ obs.nResetComplete = obs.nEffResets
\* droid_media_codec_queue is called; a codec handle is made
Enqueues == obs'.nQueued > obs.nQueued
CreatesHandle == m_codec = 0 /\ m_codec' # 0
\* C35: a frame given to Decode before a Reset is not queued to the codec,
\* and makes no codec handle, once the ResetComplete of that Reset has been
\* delivered.
C35_NoStaleFrameAfterResetComplete ==
  [][(Enqueues \/ CreatesHandle) => ~StaleFrame]_vars


\* ---- C36
\* C36: a thread that is not inside an operation of the session (the main
\* thread between host calls and tasks, the submit thread between tasks, the
\* codec thread between callbacks) holds neither the codec lock nor the
\* drain lock: every operation has released what it acquired when it
\* returns.  (The sections under the stop lock are single steps here.)
C36_LocksReleasedOnReturn ==
  api = "decode-video" =>
    /\ pcW = "idle" => ~HoldsLock("submit")
    /\ pcM = "idle" => ~HoldsLock("main")
    /\ pcH = "idle" => ~HoldsLock("codec")


\* ---- C37
\* the thread the main thread is blocked on, "none" if it is not blocked:
\* Join waits for the submit thread, a lock for its owner,
\* droid_media_codec_stop for the codec thread to leave its callback
MainWaitsOn ==
  IF pcM = "rc_join" /\ ~(workerQ = <<>> /\ pcW = "idle") THEN "submit"
  ELSE IF pcM = "rc_stop" /\ ~CanAcquire(m_codec_lock, MainThread)
  THEN m_codec_lock.owner[1]
  ELSE IF pcM = "rc_stop" /\ m_codec # 0 /\ pcH # "idle" THEN "codec"
  ELSE IF pcM \in {"rm_finish", "drain_lock"}
          /\ ~CanAcquire(m_drain_lock, MainThread)
  THEN m_drain_lock.owner[1]
  ELSE "none"
\* the thread of that kind is blocked on the main thread: the codec thread in
\* syncrunonmainthread, the submit thread on a lock the main thread holds
WaitsOnMain(kind) ==
  \/ kind = "codec" /\ pcH = "pf_wait"
  \/ /\ kind = "submit"
     /\ \/ pcW \in {"idle", "w_post"} /\ m_drain_lock.owner = MainThread
        \/ pcW = "cc_create" /\ m_codec_lock.owner = MainThread
\* C37: the main thread is never blocked on a thread that is itself blocked
\* on the main thread.
C37_NoWaitCycle ==
  api = "decode-video" =>
    ~(MainWaitsOn # "none" /\ WaitsOnMain(MainWaitsOn))


\* ---- C38
\* C38: no droidmedia call (queue, drain, stop, destroy, get output info) of
\* a decode or an encode session is made with a handle that is null or that
\* has been destroyed.
C38_NoCallOnDeadHandle == ~obs.badHandle


\* ---- C39
\* a Decode call returns without posting the frame to the submit thread
DecodeFails ==
  obs'.nDecodeCalls > obs.nDecodeCalls /\ workerQ' = workerQ
\* C39: a Decode that fails before the frame is posted to the submit thread
\* (unsupported length prefix, createthread failure) posts an Error for the
\* host and leaves the duration cache as it was.
C39_FailedDecodeLeavesCache ==
  [][DecodeFails =>
       /\ Len(mainQ') = Len(mainQ) + 1
       /\ mainQ'[Len(mainQ')].t = "cbError"
       /\ m_dur' = m_dur]_vars


\* ---- C40
\* C40: neither the loop of Decode nor ConvertNalUnits reads or writes a byte
\* at or past the end of the frame buffer.
C40_ReframingStaysInside == ~obs.outside

====
